---- MODULE Spec2Model ----
\* Evaluation dispatch pipeline of mlsec-comp-platform.
\*
\* Modelled parts:
\*   services/api/routers/queue.py           jobs rows and broker envelopes
\*   services/worker/worker/tasks.py         run_defense_job, run_attack_job
\*   services/worker/worker/db.py            relational store helpers
\*   services/worker/worker/redis_client.py  WorkerRegistry (Redis)
\*   services/worker/worker/celery_app.py    late acknowledgement, prefetch 1
\*
\* worker.defense.evaluate.evaluate_defense_with_redis is imported by
\* tasks.py but is not part of the sources; its loop is modelled from
\* section 4.4.2 of the specification (the Evaluate actions).  What is
\* done with one sample (POST, retry, parsing of the reply) is taken from
\* run_evaluation in services/worker/worker/defense/evaluate.py.
\*
\* Step granularity: one action per SQL statement or Redis command group
\* whose intermediate state another process can observe.  Steps that only
\* touch process-local data are merged into the preceding step.
EXTENDS Integers, Sequences, FiniteSets, TLC

\* ---------------------------------------------------------------- bounds
NumDefenses == 1        \* defense submissions in the store
NumAttacks == 1         \* attack submissions in the store
NumFiles == 2           \* attack_files rows per attack submission
MaxJobs == 2            \* jobs rows the Dispatch API inserts
NumWorkers == 2         \* celery worker processes (one job each, prefetch 1)
MaxTime == 1            \* seconds between two task starts of one job
MaxCrashes == 1         \* faults: worker processes lost, registry or teardown commands failing
MaxCalls == 4           \* calls of mark_evaluation_queued (registry contract)
ClaimTTL == 2           \* clock ticks standing for the 86400 s of the claim key
NumRegDefenses == 2     \* defense ids in the worker-record contract
NumItems == 2           \* distinct attack ids in the worker-queue contract
MaxPushes == 3          \* pushes to one worker queue between two deletes

Defenses == 1..NumDefenses
Attacks == 1..NumAttacks
JobIds == 1..MaxJobs
Files == 1..NumFiles
Times == 0..MaxTime
WorkerIds == JobIds \X Times     \* f"worker_{job_id}_{int(time.time())}"

Null == 0                         \* SQL NULL / Python None / missing key

VARIABLES
    now,          \* per job: second of its latest task start, counted
                  \* from the second of its first task start
    jobs,         \* table jobs: job id -> row (kind "none": no such row)
    defSub,       \* table submissions, submission_type = 'defense'
    atkSub,       \* table submissions, submission_type = 'attack' (status)
    runs,         \* table evaluation_runs, in insertion order (id = index)
    results,      \* table evaluation_file_results, in insertion order
    meta,         \* redis hashes worker:{id}:metadata
    queue,        \* redis lists  worker:{id}:attacks
    active,       \* redis set    workers:active
    claims,       \* redis strings evaluations:queued:{defense}:{attack}
    broker,       \* envelope of each job: none / ready / inflight / acked
    pc,           \* position of the execution of each job's task
    loc,          \* local variables of the execution of each job's task
    containers,   \* docker containers eval_defense_{job_id} that exist
    networks,     \* docker networks eval_net_{job_id} that exist
    crashes,      \* faults so far: worker processes and registry callers
                  \* lost, teardown steps that raised
    reg           \* registry contracts: claim ttl and the call of
                  \* mark_evaluation_queued; push and pop logs of the
                  \* worker queues; the call of get_open_workers_for_defense

vars == <<now, jobs, defSub, atkSub, runs, results, meta, queue, active,
          claims, broker, pc, loc, containers, networks, crashes, reg>>

dbVars == <<jobs, defSub, atkSub, runs, results>>
redisVars == <<meta, queue, active, claims>>
dockerVars == <<containers, networks>>

\* ------------------------------------------------------------ row shapes
NoJob == [kind |-> "none", status |-> "none", error |-> "", sub |-> Null]
NoHash == [defense_submission_id |-> Null, job_id |-> Null,
           queue_state |-> "none", heartbeat |-> "none", exists |-> FALSE]
NoLoc == [wid |-> <<Null, Null>>, needs_validation |-> FALSE,
          container |-> FALSE, network |-> FALSE, raised |-> "",
          run_of |-> [a \in Attacks |-> Null], cur |-> Null, fidx |-> 0,
          defs |-> <<>>, i |-> 0, last |-> <<>>, posts |-> 0,
          warned |-> ""]

\* no call of get_open_workers_for_defense in progress
NoScan == [pc |-> "idle", d |-> Null, todo |-> {}, out |-> <<>>, dirty |-> FALSE]

\* no call of mark_evaluation_queued in progress, no claim key with a ttl;
\* no push or pop recorded
NoCall == [pc |-> "idle", key |-> <<Null, Null>>, result |-> FALSE]
NoReg == [ttl |-> [p \in Defenses \X Attacks |-> -1],
          call |-> [c \in JobIds |-> NoCall],
          trues |-> [p \in Defenses \X Attacks |-> <<>>],
          falses |-> 0,
          calls |-> 0,
          pushed |-> [w \in WorkerIds |-> <<>>],
          popped |-> [w \in WorkerIds |-> <<>>],
          lastpop |-> [w |-> <<Null, Null>>, got |-> Null],
          scan |-> NoScan]

\* ------------------------------------------------------- db.py (queries)
\* attack_files of an attack, ORDER BY created_at
get_attack_files(a) == [i \in 1..NumFiles |-> i]

\* ascending enumeration of a finite set of integers (row order of a SELECT)
RECURSIVE SetToSeq(_)
SetToSeq(S) ==
    IF S = {} THEN <<>>
    ELSE LET m == CHOOSE x \in S : \A y \in S : x <= y
         IN <<m>> \o SetToSeq(S \ {m})

RunIds == 1..Len(runs)

\* SELECT id FROM submissions WHERE submission_type = 'defense'
\*   AND is_functional = TRUE AND status = 'ready' AND deleted_at IS NULL
get_all_validated_defenses ==
    SetToSeq({d \in Defenses : defSub[d].is_functional = "true"
                               /\ defSub[d].status = "ready"})

\* attacks with status 'ready' and deleted_at IS NULL that have no run of
\* this defense whose status is 'running' or 'done'
get_unevaluated_attacks(d) ==
    SetToSeq({a \in Attacks :
        /\ atkSub[a] = "ready"
        /\ ~ \E r \in RunIds : /\ runs[r].defense_submission_id = d
                               /\ runs[r].attack_submission_id = a
                               /\ runs[r].status \in {"running", "done"}})

\* SELECT is_functional ... ; return result is None
check_if_needs_validation(d) == defSub[d].is_functional = "unknown"

is_evaluation_in_progress_Never(d, a) == FALSE

\* COUNT(*) of runs of the pair with status IN ('queued', 'running') > 0
is_evaluation_in_progress(d, a) ==
    \E r \in RunIds : /\ runs[r].defense_submission_id = d
                      /\ runs[r].attack_submission_id = a
                      /\ runs[r].status \in {"queued", "running"}

\* ------------------------------------------------------ db.py (updates)
\* UPDATE jobs SET status = :status [, payload = payload || {error}]
\* WHERE id = :id      (no condition on the current status)
set_job_status(J, j, status, error) ==
    IF J[j].kind = "none" THEN J
    ELSE IF error = ""
         THEN [J EXCEPT ![j].status = status]
         ELSE [J EXCEPT ![j].status = status, ![j].error = error]

\* INSERT INTO evaluation_runs (...) VALUES (:def_id, :atk_id, 'running')
ensure_evaluation_run(R, d, a) ==
    Append(R, [defense_submission_id |-> d, attack_submission_id |-> a,
               status |-> "running"])

upsert_evaluation_DropsError(E, run_id, file_id, out, err) ==
    Append(E, [evaluation_run_id |-> run_id, attack_file_id |-> file_id,
               model_output |-> out, error |-> ""])

\* INSERT INTO evaluation_file_results (...) VALUES (...)
upsert_evaluation(E, run_id, file_id, out, err) ==
    Append(E, [evaluation_run_id |-> run_id, attack_file_id |-> file_id,
               model_output |-> out, error |-> err])

\* UPDATE submissions SET is_functional = TRUE, status = 'ready'
mark_defense_validated(S, d) ==
    [S EXCEPT ![d].is_functional = "true", ![d].status = "ready"]

mark_defense_failed_NoMessage(S, d, error) ==
    [S EXCEPT ![d].is_functional = "false", ![d].status = "failed"]

\* UPDATE submissions SET is_functional = FALSE, functional_error = :error,
\*   status = 'failed'
mark_defense_failed(S, d, error) ==
    [S EXCEPT ![d].is_functional = "false", ![d].status = "failed",
              ![d].functional_error = error]

\* UPDATE submissions SET status = 'ready'  (deleted_at is not touched:
\* "ready_deleted" is a row with status 'ready' and deleted_at set)
mark_attack_validated(S, a) ==
    [S EXCEPT ![a] = IF @ = "ready_deleted" THEN @ ELSE "ready"]

\* ------------------------------------------------ redis_client.py
\* hset(metadata, mapping = {...queue_state: OPEN...}); sadd(workers:active)
register_meta(M, w, d, j) ==
    [M EXCEPT ![w] = [defense_submission_id |-> d, job_id |-> j,
                      queue_state |-> "OPEN", heartbeat |-> "t",
                      exists |-> TRUE]]

\* rpush(worker:{id}:attacks, attack_id)
add_attack_to_queue_Lpush(Q, w, a) == [Q EXCEPT ![w] = <<a>> \o @]

add_attack_to_queue(Q, w, a) == [Q EXCEPT ![w] = Append(@, a)]

\* hset(metadata, "queue_state", "CLOSED"): creates the hash when missing
close_queue(M, w) == [M EXCEPT ![w].queue_state = "CLOSED", ![w].exists = TRUE]

\* hset(metadata, "heartbeat", time.time()): creates the hash when missing
heartbeat(M, w) == [M EXCEPT ![w].heartbeat = "t", ![w].exists = TRUE]

\* smembers(workers:active), then hgetall of each member's metadata
get_open_workers_for_defense(d) ==
    {w \in active : /\ meta[w].defense_submission_id = d
                    /\ meta[w].queue_state = "OPEN"}

\* ------------------------------------------------------ initial state
\* A defense as uploaded, and a defense whose row says validated (as the
\* rows get_all_validated_defenses selects); an attack as uploaded, and an
\* attack an earlier job marked ready.  No run exists.
FreshDefense == [is_functional |-> "unknown", status |-> "submitted",
                 functional_error |-> ""]
ValidatedDefense == [is_functional |-> "true", status |-> "ready",
                     functional_error |-> ""]

Init ==
    /\ now = [j \in JobIds |-> 0]
    /\ jobs = [j \in JobIds |-> NoJob]
    /\ defSub \in [Defenses -> {FreshDefense, ValidatedDefense}]
    /\ atkSub \in [Attacks -> {"submitted", "ready"}]
    /\ runs = <<>>
    /\ results = <<>>
    /\ meta = [w \in WorkerIds |-> NoHash]
    /\ queue = [w \in WorkerIds |-> <<>>]
    /\ active = {}
    /\ claims = [p \in Defenses \X Attacks |-> Null]
    /\ broker = [j \in JobIds |-> "none"]
    /\ pc = [j \in JobIds |-> "idle"]
    /\ loc = [j \in JobIds |-> NoLoc]
    /\ containers = {}
    /\ networks = {}
    /\ crashes = 0
    /\ reg = NoReg

\* ------------------------------------------- api/routers/queue.py
FreeJobIds == {j \in JobIds : jobs[j].kind = "none"}
NewJobId == CHOOSE j \in FreeJobIds : \A k \in FreeJobIds : j <= k

\* _insert_job: INSERT INTO jobs (...) VALUES (:job_type, 'queued', ...)
insert_job(J, j, kind, sub) ==
    [J EXCEPT ![j] = [kind |-> kind, status |-> "queued", error |-> "",
                      sub |-> sub]]

\* POST /queue/defense: jobs row, then celery.send_task(run_defense_job)
enqueue_defense_job(d) ==
    /\ FreeJobIds # {}
    /\ jobs' = insert_job(jobs, NewJobId, "defense", d)
    /\ broker' = [broker EXCEPT ![NewJobId] = "ready"]
    /\ UNCHANGED <<now, defSub, atkSub, runs, results, redisVars, dockerVars,
                   pc, loc, crashes, reg>>

\* POST /queue/attack: jobs row, then celery.send_task(run_attack_job)
enqueue_attack_job(a) ==
    /\ FreeJobIds # {}
    /\ jobs' = insert_job(jobs, NewJobId, "attack", a)
    /\ broker' = [broker EXCEPT ![NewJobId] = "ready"]
    /\ UNCHANGED <<now, defSub, atkSub, runs, results, redisVars, dockerVars,
                   pc, loc, crashes, reg>>

\* ------------------------------------------------ celery_app.py (broker)
Live == {j \in JobIds : pc[j] # "idle"}

\* A worker process with no job takes the envelope (prefetch multiplier 1).
\* run_defense_job computes worker_id from job_id and int(time.time()).
\* t is the second in which the task starts: the clock never goes back, and
\* a job no task has touched yet starts in its second 0.
Deliver(j, t) ==
    /\ broker[j] = "ready"
    /\ Cardinality(Live) < NumWorkers
    /\ t \in now[j]..MaxTime
    /\ jobs[j].status = "queued" => t = now[j]
    /\ now' = [now EXCEPT ![j] = t]
    /\ broker' = [broker EXCEPT ![j] = "inflight"]
    /\ pc' = [pc EXCEPT ![j] = "start"]
    /\ loc' = [loc EXCEPT ![j] = [NoLoc EXCEPT !.wid = <<j, t>>]]
    /\ UNCHANGED <<dbVars, redisVars, dockerVars, crashes, reg>>

\* task_acks_late: the envelope is acknowledged after the task returned or
\* raised
Ack(j) ==
    /\ pc[j] = "return"
    /\ broker' = [broker EXCEPT ![j] = "acked"]
    /\ pc' = [pc EXCEPT ![j] = "idle"]
    /\ loc' = [loc EXCEPT ![j] = NoLoc]
    /\ UNCHANGED <<now, dbVars, redisVars, dockerVars, crashes, reg>>

\* The worker process is lost before the acknowledgement: nothing of the
\* task runs any more (no except, no finally) and the broker delivers the
\* unacknowledged envelope again.
Crash(j) ==
    /\ pc[j] # "idle"
    /\ crashes < MaxCrashes
    /\ crashes' = crashes + 1
    /\ broker' = [broker EXCEPT ![j] = "ready"]
    /\ pc' = [pc EXCEPT ![j] = "idle"]
    /\ loc' = [loc EXCEPT ![j] = NoLoc]
    /\ UNCHANGED <<now, dbVars, redisVars, dockerVars, reg>>

\* ------------------------------------------- tasks.py run_defense_job
IsDefense(j) == jobs[j].kind = "defense"
IsAttack(j) == jobs[j].kind = "attack"

\* the statement that raised jumps to the except clause
Raise(j, msg) == [loc EXCEPT ![j].raised = msg]

\* try: set_job_status(job_id, "running")
D_SetRunning(j) ==
    /\ pc[j] = "start" /\ IsDefense(j)
    /\ jobs' = set_job_status(jobs, j, "running", "")
    /\ pc' = [pc EXCEPT ![j] = "register"]
    /\ UNCHANGED <<now, defSub, atkSub, runs, results, redisVars, dockerVars,
                   broker, loc, crashes, reg>>

RECURSIVE PushAll(_, _, _)
PushAll(Q, w, atks) ==
    IF atks = <<>> THEN Q
    ELSE PushAll(add_attack_to_queue(Q, w, Head(atks)), w, Tail(atks))

\* registry.register(worker_id, defense_submission_id, job_id)
\* unevaluated_attacks = get_unevaluated_attacks(defense_submission_id)
\* for attack_id in unevaluated_attacks: registry.add_attack_to_queue(...)
D_RegisterBackfill(j) ==
    /\ pc[j] = "register"
    /\ meta' = register_meta(meta, loc[j].wid, jobs[j].sub, j)
    /\ active' = active \cup {loc[j].wid}
    /\ queue' = PushAll(queue, loc[j].wid, get_unevaluated_attacks(jobs[j].sub))
    /\ pc' = [pc EXCEPT ![j] = "prepare"]
    /\ UNCHANGED <<now, dbVars, claims, dockerVars, broker, loc, crashes, reg>>

\* registry.register raises (the registry cannot be reached): no key is
\* written and the task jumps to its except clause
D_RegisterFails(j) ==
    /\ pc[j] = "register"
    /\ crashes < MaxCrashes
    /\ crashes' = crashes + 1
    /\ loc' = Raise(j, "registry")
    /\ pc' = [pc EXCEPT ![j] = "except"]
    /\ UNCHANGED <<now, dbVars, redisVars, dockerVars, broker, reg>>

\* needs_validation = check_if_needs_validation(...); source lookup and
\* pull/build of the image, which either yields an image or raises
D_Prepare(j, ok) ==
    /\ pc[j] = "prepare"
    /\ loc' = [loc EXCEPT
                 ![j].needs_validation = check_if_needs_validation(jobs[j].sub),
                 ![j].raised = IF ok THEN "" ELSE "image"]
    /\ pc' = [pc EXCEPT ![j] = IF ok THEN "sandbox" ELSE "except"]
    /\ UNCHANGED <<now, dbVars, redisVars, dockerVars, broker, crashes, reg>>

SandboxOutcomes == {"network_error", "run_error", "start_error", "not_ready",
                    "ready"}

\* networks.create(eval_net_{job_id}); network.connect(gateway);
\* containers.run(name = eval_defense_{job_id}); readiness poll.
\* A container name that is already in use makes containers.run raise.
\* containers.run creates the container and then starts it: when the start
\* raises (start_error) the container exists but the assignment
\* container = ... has not happened.
D_Sandbox(j, out) ==
    /\ pc[j] = "sandbox"
    /\ out \in SandboxOutcomes
    /\ j \in containers => out \in {"network_error", "run_error"}
    /\ networks' = IF out = "network_error" THEN networks
                   ELSE networks \cup {j}
    /\ containers' = IF out \in {"start_error", "not_ready", "ready"}
                     THEN containers \cup {j} ELSE containers
    /\ loc' = [loc EXCEPT
                 ![j].network = (out # "network_error"),
                 ![j].container = (out \in {"not_ready", "ready"}),
                 ![j].raised = IF out = "ready" THEN "" ELSE out]
    /\ pc' = [pc EXCEPT ![j] =
                 IF out # "ready" THEN "except"
                 ELSE IF loc[j].needs_validation THEN "validate" ELSE "eval"]
    /\ UNCHANGED <<now, dbVars, redisVars, broker, crashes, reg>>

\* defense/validation.py validate_defense: the body is
\*   raise NotImplementedError("validate_defense pending implementation ...")
\* whatever the container answers.  The value is the exception raised
\* ("" would be a normal return).
validate_defense == "NotImplementedError"

\* if needs_validation: validate_defense(...); mark_defense_validated(...)
\* except Exception as e: mark_defense_failed(...); raise ValueError
D_Validate(j) ==
    /\ pc[j] = "validate"
    /\ defSub' = IF validate_defense = ""
                 THEN mark_defense_validated(defSub, jobs[j].sub)
                 ELSE mark_defense_failed(defSub, jobs[j].sub, "validation")
    /\ loc' = IF validate_defense = "" THEN loc ELSE Raise(j, "validation")
    /\ pc' = [pc EXCEPT ![j] = IF validate_defense = "" THEN "eval"
                               ELSE "except"]
    /\ UNCHANGED <<now, jobs, atkSub, runs, results, redisVars, dockerVars,
                   broker, crashes, reg>>

D_SetDone_SkipsWrite(j) ==
    /\ pc[j] = "finish" /\ IsDefense(j)
    /\ pc' = [pc EXCEPT ![j] = "finally"]
    /\ UNCHANGED <<now, dbVars, redisVars, dockerVars, broker, loc, crashes,
                   reg>>

\* set_job_status(job_id, "done") after evaluate_defense_with_redis returned
D_SetDone(j) ==
    /\ pc[j] = "finish" /\ IsDefense(j)
    /\ jobs' = set_job_status(jobs, j, "done", "")
    /\ pc' = [pc EXCEPT ![j] = "finally"]
    /\ UNCHANGED <<now, defSub, atkSub, runs, results, redisVars, dockerVars,
                   broker, loc, crashes, reg>>

D_Except_MarksDefense(j) ==
    /\ pc[j] = "except" /\ IsDefense(j)
    /\ jobs' = set_job_status(jobs, j, "failed", loc[j].raised)
    /\ defSub' = mark_defense_failed(defSub, jobs[j].sub, loc[j].raised)
    /\ pc' = [pc EXCEPT ![j] = "finally"]
    /\ UNCHANGED <<now, atkSub, runs, results, redisVars, dockerVars,
                   broker, loc, crashes, reg>>

\* except Exception as exc: set_job_status(job_id, "failed", error=str(exc))
D_Except(j) ==
    /\ pc[j] = "except" /\ IsDefense(j)
    /\ jobs' = set_job_status(jobs, j, "failed", loc[j].raised)
    /\ pc' = [pc EXCEPT ![j] = "finally"]
    /\ UNCHANGED <<now, defSub, atkSub, runs, results, redisVars, dockerVars,
                   broker, loc, crashes, reg>>

\* registry.unregister(worker_id): delete(metadata); delete(attacks);
\* srem(workers:active, worker_id)
unregister_meta(M, w) == [M EXCEPT ![w] = NoHash]
unregister_queue_KeepsList(Q, w) == Q

unregister_queue(Q, w) == [Q EXCEPT ![w] = <<>>]
unregister_active(A, w) == A \ {w}

\* finally: registry.unregister(worker_id);
\*          if container: stop, remove; if network: disconnect, remove
D_Finally(j) ==
    /\ pc[j] = "finally"
    /\ meta' = unregister_meta(meta, loc[j].wid)
    /\ queue' = unregister_queue(queue, loc[j].wid)
    /\ active' = unregister_active(active, loc[j].wid)
    /\ containers' = IF loc[j].container THEN containers \ {j} ELSE containers
    /\ networks' = IF loc[j].network THEN networks \ {j} ELSE networks
    /\ pc' = [pc EXCEPT ![j] = "return"]
    /\ UNCHANGED <<now, dbVars, claims, broker, loc, crashes, reg>>

\* except Exception as e: logger.warning(...) around each teardown step:
\* the error of the step is logged (warned) and nothing else happens
teardown_error_Propagates(L, j, step) ==
    [L EXCEPT ![j].raised = step, ![j].warned = step]

teardown_error(L, j, step) == [L EXCEPT ![j].warned = step]

TeardownSteps == {"unregister", "container", "network"}

\* finally, with one step that raises: registry.unregister (the worker keys
\* stay), container.stop (container.remove is skipped, the container
\* stays) or network.remove (the network stays); the other steps run.
D_FinallyFails(j, step) ==
    /\ pc[j] = "finally"
    /\ step \in TeardownSteps
    /\ step = "container" => loc[j].container
    /\ step = "network" => loc[j].network
    /\ crashes < MaxCrashes
    /\ crashes' = crashes + 1
    /\ meta' = IF step = "unregister" THEN meta
               ELSE unregister_meta(meta, loc[j].wid)
    /\ queue' = IF step = "unregister" THEN queue
                ELSE unregister_queue(queue, loc[j].wid)
    /\ active' = IF step = "unregister" THEN active
                 ELSE unregister_active(active, loc[j].wid)
    /\ containers' = IF loc[j].container /\ step # "container"
                     THEN containers \ {j} ELSE containers
    /\ networks' = IF loc[j].network /\ step # "network"
                   THEN networks \ {j} ELSE networks
    /\ loc' = teardown_error(loc, j, step)
    /\ pc' = [pc EXCEPT ![j] = "return"]
    /\ UNCHANGED <<now, dbVars, claims, broker, reg>>

\* ----------------- evaluate_defense_with_redis (specification 4.4.2)
pop_next_attack_TimesOut(Q, w) == Null

\* blpop(worker:{id}:attacks, timeout=1): head of the list, or None
pop_next_attack(Q, w) == IF Q[w] = <<>> THEN Null ELSE Head(Q[w])

\* the run of a finished attack reaches status done (scenario S2)
mark_run_done(R, r) == [R EXCEPT ![r].status = "done"]

\* ------------------------- defense/evaluate.py run_evaluation, per sample
\* What the gateway does to one POST: an exception of requests, or a
\* response <<status_code, body>>; body: not JSON, JSON without "result",
\* or the value of "result".
NoOutput == -1                    \* prediction = None / model_output NULL
Responses == {<<"200", "not_json">>, <<"200", "no_result">>, <<"200", "0">>,
              <<"200", "1">>, <<"200", "2">>, <<"500", "0">>}
AttemptOutcomes == {<<"ConnectionError", "">>, <<"Timeout", "">>,
                    <<"Exception", "">>} \cup Responses
IsResponse(o) == o \in Responses

\* outcomes of the first POST and of a second one; a second POST can only
\* follow a connection error, so the second outcome is varied only there
GatewayBehaviours ==
    {b \in AttemptOutcomes \X AttemptOutcomes :
        b[1][1] # "ConnectionError" => b[2] = b[1]}

max_retries == 1

\* for retry in range(max_retries): try: response = requests.post(...)
\*   success = True; break
\* except ConnectionError: if retry < max_retries - 1: (next iteration)
\*                         else: error_msg = "ConnectionError on final retry"
\* except Timeout: error_msg = "HTTP request timeout"; break
\* except Exception: error_msg = "Unexpected error"; break
RECURSIVE post_sample(_, _)
post_sample(beh, retry) ==
    IF retry >= max_retries
    THEN [success |-> FALSE, response |-> <<"", "">>, error_msg |-> "",
          posts |-> retry]
    ELSE LET o == beh[retry + 1]
         IN IF IsResponse(o)
            THEN [success |-> TRUE, response |-> o, error_msg |-> "",
                  posts |-> retry + 1]
            ELSE IF o[1] = "ConnectionError"
            THEN IF retry < max_retries - 1
                 THEN post_sample(beh, retry + 1)
                 ELSE [success |-> FALSE, response |-> <<"", "">>,
                       error_msg |-> "ConnectionError on final retry",
                       posts |-> retry + 1]
            ELSE IF o[1] = "Timeout"
            THEN [success |-> FALSE, response |-> <<"", "">>,
                  error_msg |-> "HTTP request timeout", posts |-> retry + 1]
            ELSE [success |-> FALSE, response |-> <<"", "">>,
                  error_msg |-> "Unexpected error", posts |-> retry + 1]

\* if success: if response.status_code != 200: error_msg = "HTTP ..."
\*   else: try: prediction = response.json().get("result")
\*              if prediction not in [0, 1]: error_msg = "Invalid prediction"
\*                                           prediction = None
\*         except Exception: error_msg = "Failed to parse JSON"
\* reply: <<prediction, error_msg>>
parse_response_NoErrorOnStatus(p) ==
    IF ~p.success THEN <<NoOutput, p.error_msg>>
    ELSE IF p.response[1] # "200" THEN <<NoOutput, "">>
    ELSE IF p.response[2] = "not_json" THEN <<NoOutput, "Failed to parse JSON">>
    ELSE IF p.response[2] = "0" THEN <<0, "">>
    ELSE IF p.response[2] = "1" THEN <<1, "">>
    ELSE <<NoOutput, "Invalid prediction">>

parse_response(p) ==
    IF ~p.success THEN <<NoOutput, p.error_msg>>
    ELSE IF p.response[1] # "200" THEN <<NoOutput, "HTTP status">>
    ELSE IF p.response[2] = "not_json" THEN <<NoOutput, "Failed to parse JSON">>
    ELSE IF p.response[2] = "0" THEN <<0, "">>
    ELSE IF p.response[2] = "1" THEN <<1, "">>
    ELSE <<NoOutput, "Invalid prediction">>

\* the defense answers every sample with {"result": 1} at the first POST
PerFileOutcomes == {<< <<"200", "1">>, <<"200", "1">> >>}

\* attack_id = pop_attack(worker_id, timeout=1s); a pop that times out
\* ends the loop (idle exit).  For an attack this worker has no run for yet
\* a run is created with status running.
Evaluate_Pop(j) ==
    /\ pc[j] = "eval"
    /\ LET w == loc[j].wid
           a == pop_next_attack(queue, w)
       IN IF a = Null
          THEN /\ pc' = [pc EXCEPT ![j] = "finish"]
               /\ UNCHANGED <<queue, runs, loc>>
          ELSE /\ queue' = [queue EXCEPT ![w] = Tail(@)]
               /\ runs' = IF loc[j].run_of[a] = Null
                          THEN ensure_evaluation_run(runs, jobs[j].sub, a)
                          ELSE runs
               /\ loc' = [loc EXCEPT
                            ![j].cur = a, ![j].fidx = 0,
                            ![j].run_of[a] = IF @ = Null THEN Len(runs) + 1
                                             ELSE @]
               /\ pc' = [pc EXCEPT ![j] = "eval_files"]
    /\ UNCHANGED <<now, jobs, defSub, atkSub, results, meta, active, claims,
                   dockerVars, broker, crashes, reg>>

\* for each attack_file ordered by creation: post it, persist the result
Evaluate_File(j, o) ==
    /\ pc[j] = "eval_files"
    /\ o \in GatewayBehaviours
    /\ loc[j].fidx < Len(get_attack_files(loc[j].cur))
    /\ LET posted == post_sample(o, 0)
           row == parse_response(posted)
       IN /\ results' = upsert_evaluation(results, loc[j].run_of[loc[j].cur],
                           <<loc[j].cur,
                             get_attack_files(loc[j].cur)[loc[j].fidx + 1]>>,
                           row[1], row[2])
          /\ loc' = [loc EXCEPT ![j].fidx = @ + 1, ![j].last = o,
                                ![j].posts = posted.posts]
    /\ UNCHANGED <<now, jobs, defSub, atkSub, runs, redisVars, dockerVars,
                   broker, pc, crashes, reg>>

\* after the last file: the run is done; heartbeat(worker_id)
Evaluate_Done(j) ==
    /\ pc[j] = "eval_files"
    /\ loc[j].fidx = Len(get_attack_files(loc[j].cur))
    /\ runs' = mark_run_done(runs, loc[j].run_of[loc[j].cur])
    /\ meta' = heartbeat(meta, loc[j].wid)
    /\ loc' = [loc EXCEPT ![j].cur = Null, ![j].fidx = 0, ![j].last = <<>>,
                          ![j].posts = 0]
    /\ pc' = [pc EXCEPT ![j] = "eval"]
    /\ UNCHANGED <<now, jobs, defSub, atkSub, results, queue, active, claims,
                   dockerVars, broker, crashes, reg>>

\* -------------------------------------------- tasks.py run_attack_job
\* try: set_job_status(job_id, "running")
A_SetRunning(j) ==
    /\ pc[j] = "start" /\ IsAttack(j)
    /\ jobs' = set_job_status(jobs, j, "running", "")
    /\ pc' = [pc EXCEPT ![j] = "validate_attack"]
    /\ UNCHANGED <<now, defSub, atkSub, runs, results, redisVars, dockerVars,
                   broker, loc, crashes, reg>>

\* mark_attack_validated(attack_submission_id)
A_MarkValidated(j) ==
    /\ pc[j] = "validate_attack"
    /\ atkSub' = mark_attack_validated(atkSub, jobs[j].sub)
    /\ pc' = [pc EXCEPT ![j] = "defenses"]
    /\ UNCHANGED <<now, jobs, defSub, runs, results, redisVars, dockerVars,
                   broker, loc, crashes, reg>>

\* validated_defenses = get_all_validated_defenses()
A_Defenses(j) ==
    /\ pc[j] = "defenses"
    /\ loc' = [loc EXCEPT ![j].defs = get_all_validated_defenses, ![j].i = 1]
    /\ pc' = [pc EXCEPT ![j] = "loop"]
    /\ UNCHANGED <<now, dbVars, redisVars, dockerVars, broker, crashes, reg>>

\* for defense_id in validated_defenses:
\*     if is_evaluation_in_progress(defense_id, attack_id): continue
\*     if not registry.mark_evaluation_queued(defense_id, attack_id): ...
\* mark_evaluation_queued(self, defense_id, attack_id, job_id) is called
\* without job_id, so the call raises TypeError before any registry command.
A_Loop_PushAnyWorker(j) ==
    /\ pc[j] = "loop"
    /\ loc[j].i <= Len(loc[j].defs)
    /\ IF is_evaluation_in_progress(loc[j].defs[loc[j].i], jobs[j].sub)
       THEN /\ loc' = [loc EXCEPT ![j].i = @ + 1]
            /\ pc' = pc
            /\ queue' = queue
       ELSE \E w \in active :
              /\ meta[w].defense_submission_id = loc[j].defs[loc[j].i]
              /\ queue' = add_attack_to_queue(queue, w, jobs[j].sub)
              /\ loc' = [loc EXCEPT ![j].i = @ + 1]
              /\ pc' = pc
    /\ UNCHANGED <<now, dbVars, meta, active, claims, dockerVars, broker,
                   crashes, reg>>

A_Loop(j) ==
    /\ pc[j] = "loop"
    /\ loc[j].i <= Len(loc[j].defs)
    /\ IF is_evaluation_in_progress(loc[j].defs[loc[j].i], jobs[j].sub)
       THEN /\ loc' = [loc EXCEPT ![j].i = @ + 1]
            /\ pc' = pc
       ELSE /\ loc' = Raise(j, "TypeError")
            /\ pc' = [pc EXCEPT ![j] = "except"]
    /\ UNCHANGED <<now, dbVars, redisVars, dockerVars, broker, crashes, reg>>

\* set_job_status(job_id, "done") after the loop
A_SetDone(j) ==
    /\ pc[j] = "loop"
    /\ loc[j].i > Len(loc[j].defs)
    /\ jobs' = set_job_status(jobs, j, "done", "")
    /\ pc' = [pc EXCEPT ![j] = "return"]
    /\ UNCHANGED <<now, defSub, atkSub, runs, results, redisVars, dockerVars,
                   broker, loc, crashes, reg>>

A_Except_LeavesRunning(j) ==
    /\ pc[j] = "except" /\ IsAttack(j)
    /\ pc' = [pc EXCEPT ![j] = "return"]
    /\ UNCHANGED <<now, dbVars, redisVars, dockerVars, broker, loc, crashes,
                   reg>>

\* except Exception as exc: set_job_status(job_id, "failed", error=str(exc))
A_Except(j) ==
    /\ pc[j] = "except" /\ IsAttack(j)
    /\ jobs' = set_job_status(jobs, j, "failed", loc[j].raised)
    /\ pc' = [pc EXCEPT ![j] = "return"]
    /\ UNCHANGED <<now, defSub, atkSub, runs, results, redisVars, dockerVars,
                   broker, loc, crashes, reg>>

\* ------------------------------------------------ external shutdown
\* The supervisor of a running worker flips its queue to CLOSED
\* (registry.close_queue; no caller inside the worker package).
SupervisorClose(w) ==
    /\ w \in active
    /\ meta[w].queue_state = "OPEN"
    /\ meta' = close_queue(meta, w)
    /\ UNCHANGED <<now, dbVars, queue, active, claims, dockerVars, broker, pc,
                   loc, crashes, reg>>

\* ------------------------------------------------------- specification
DefenseJob(j) ==
    \/ D_SetRunning(j) \/ D_RegisterBackfill(j) \/ D_RegisterFails(j)
    \/ \E ok \in BOOLEAN : D_Prepare(j, ok)
    \/ \E out \in SandboxOutcomes : D_Sandbox(j, out)
    \/ D_Validate(j)
    \/ Evaluate_Pop(j)
    \/ \E o \in PerFileOutcomes : Evaluate_File(j, o)
    \/ Evaluate_Done(j)
    \/ D_SetDone(j) \/ D_Except(j) \/ D_Finally(j)
    \/ \E step \in TeardownSteps : D_FinallyFails(j, step)

AttackJob(j) ==
    \/ A_SetRunning(j) \/ A_MarkValidated(j) \/ A_Defenses(j)
    \/ A_Loop(j) \/ A_SetDone(j) \/ A_Except(j)

Next ==
    \/ \E d \in Defenses : enqueue_defense_job(d)
    \/ \E a \in Attacks : enqueue_attack_job(a)
    \/ \E j \in JobIds, t \in Times : Deliver(j, t)
    \/ \E j \in JobIds : DefenseJob(j)
    \/ \E j \in JobIds : AttackJob(j)
    \/ \E j \in JobIds : Ack(j)
    \/ \E j \in JobIds : Crash(j)
    \/ \E w \in WorkerIds : SupervisorClose(w)

Spec == Init /\ [][Next]_vars

\* ------------------------------ redis_client.py mark_evaluation_queued
\* The contract of the claim key on its own: callers (job ids) call
\* mark_evaluation_queued(defense_id, attack_id, job_id) with all three
\* arguments, concurrently and repeatedly, and the key expires.
\* reg.trues[key]: job ids whose call obtained True since the key was last
\* absent; reg.falses: calls that obtained False.

\* SETNX key value: stores value only when the key is absent
setnx_Overwrites(C, key, value) == [C EXCEPT ![key] = value]

setnx(C, key, value) == IF C[key] = Null THEN [C EXCEPT ![key] = value] ELSE C

\* reply of SETNX: 1 when the key was set
setnx_reply(C, key) == C[key] = Null

\* EXPIRE key seconds
expire(T, key, seconds) == [T EXCEPT ![key] = seconds]

InitRegistry ==
    /\ now = [j \in JobIds |-> 0]
    /\ jobs = [j \in JobIds |-> NoJob]
    /\ defSub = [d \in Defenses |-> ValidatedDefense]
    /\ atkSub = [a \in Attacks |-> "ready"]
    /\ runs = <<>>
    /\ results = <<>>
    /\ meta = [w \in WorkerIds |-> NoHash]
    /\ queue = [w \in WorkerIds |-> <<>>]
    /\ active = {}
    /\ claims = [p \in Defenses \X Attacks |-> Null]
    /\ broker = [j \in JobIds |-> "none"]
    /\ pc = [j \in JobIds |-> "idle"]
    /\ loc = [j \in JobIds |-> NoLoc]
    /\ containers = {}
    /\ networks = {}
    /\ crashes = 0
    /\ reg = NoReg

\* result = self.client.setnx(key, str(job_id))
mark_evaluation_queued_setnx(c, d, a) ==
    /\ reg.call[c].pc = "idle"
    /\ reg.calls < MaxCalls
    /\ claims' = setnx(claims, <<d, a>>, c)
    /\ reg' = [reg EXCEPT
                 !.call[c] = [pc |-> "setnx_done", key |-> <<d, a>>,
                              result |-> setnx_reply(claims, <<d, a>>)],
                 !.calls = @ + 1]
    /\ UNCHANGED <<now, dbVars, meta, queue, active, dockerVars, broker, pc,
                   loc, crashes>>

\* if result: self.client.expire(key, 86400); return bool(result)
mark_evaluation_queued_return(c) ==
    /\ reg.call[c].pc = "setnx_done"
    /\ reg' = [reg EXCEPT
                 !.ttl = IF reg.call[c].result
                         THEN expire(@, reg.call[c].key, ClaimTTL) ELSE @,
                 !.trues[reg.call[c].key] =
                         IF reg.call[c].result THEN Append(@, c) ELSE @,
                 !.falses = IF reg.call[c].result THEN @ ELSE @ + 1,
                 !.call[c] = NoCall]
    /\ UNCHANGED <<now, dbVars, redisVars, dockerVars, broker, pc, loc, crashes>>

\* Redis clock: a key with a ttl loses one tick; at zero the key is deleted
ClaimTick(p) ==
    /\ claims[p] # Null
    /\ reg.ttl[p] > 0
    /\ IF reg.ttl[p] = 1
       THEN /\ claims' = [claims EXCEPT ![p] = Null]
            /\ reg' = [reg EXCEPT !.ttl[p] = -1, !.trues[p] = <<>>]
       ELSE /\ claims' = claims
            /\ reg' = [reg EXCEPT !.ttl[p] = @ - 1]
    /\ UNCHANGED <<now, dbVars, meta, queue, active, dockerVars, broker, pc,
                   loc, crashes>>

NextRegistry ==
    \/ \E c \in JobIds, d \in Defenses, a \in Attacks :
          mark_evaluation_queued_setnx(c, d, a)
    \/ \E c \in JobIds : mark_evaluation_queued_return(c)
    \/ \E p \in Defenses \X Attacks : ClaimTick(p)

SpecRegistry == InitRegistry /\ [][NextRegistry]_vars

\* --------------------------------------------- one undisturbed worker
\* The evaluation loop of defense jobs that meet no fault, on one worker
\* process (one task at a time): the image and the sandbox come up, the
\* worker is not lost, no teardown step fails; the gateway may do anything
\* to each POST.
Deliver_Free(j) == Live = {} /\ Deliver(j, 0)

InitEval ==
    /\ Init
    /\ defSub = [d \in Defenses |-> ValidatedDefense]
    /\ atkSub = [a \in Attacks |-> "ready"]

NextEval ==
    \/ \E d \in Defenses : enqueue_defense_job(d)
    \/ \E j \in JobIds : Deliver_Free(j)
    \/ \E j \in JobIds : D_SetRunning(j)
    \/ \E j \in JobIds : D_RegisterBackfill(j)
    \/ \E j \in JobIds : D_Prepare(j, TRUE)
    \/ \E j \in JobIds : D_Sandbox(j, "ready")
    \/ \E j \in JobIds : Evaluate_Pop(j)
    \/ \E j \in JobIds, o \in GatewayBehaviours : Evaluate_File(j, o)
    \/ \E j \in JobIds : Evaluate_Done(j)
    \/ \E j \in JobIds : D_SetDone(j)
    \/ \E j \in JobIds : D_Finally(j)
    \/ \E j \in JobIds : Ack(j)

SpecEval == InitEval /\ [][NextEval]_vars

\* ------------------------------------------------- backfill contract
\* The same worker over any store the schema admits: attacks uploaded,
\* ready or soft-deleted, and runs of the pair in any status left by
\* earlier jobs.
MaxOldRuns == 2
RunStatuses == {"queued", "running", "done", "failed"}
OldRuns ==
    UNION {[1..n -> [defense_submission_id : Defenses,
                     attack_submission_id : Attacks,
                     status : RunStatuses]] : n \in 0..MaxOldRuns}

InitBackfill ==
    /\ now = [j \in JobIds |-> 0]
    /\ jobs = [j \in JobIds |-> NoJob]
    /\ defSub = [d \in Defenses |-> ValidatedDefense]
    /\ atkSub \in [Attacks -> {"submitted", "ready", "ready_deleted"}]
    /\ runs \in OldRuns
    /\ results = <<>>
    /\ meta = [w \in WorkerIds |-> NoHash]
    /\ queue = [w \in WorkerIds |-> <<>>]
    /\ active = {}
    /\ claims = [p \in Defenses \X Attacks |-> Null]
    /\ broker = [j \in JobIds |-> "none"]
    /\ pc = [j \in JobIds |-> "idle"]
    /\ loc = [j \in JobIds |-> NoLoc]
    /\ containers = {}
    /\ networks = {}
    /\ crashes = 0
    /\ reg = NoReg

NextBackfill ==
    \/ \E d \in Defenses : enqueue_defense_job(d)
    \/ \E j \in JobIds : Deliver_Free(j)
    \/ \E j \in JobIds : D_SetRunning(j)
    \/ \E j \in JobIds : D_RegisterBackfill(j)
    \/ \E j \in JobIds : D_Prepare(j, TRUE)
    \/ \E j \in JobIds : D_Sandbox(j, "ready")
    \/ \E j \in JobIds : Evaluate_Pop(j)
    \/ \E j \in JobIds, o \in PerFileOutcomes : Evaluate_File(j, o)
    \/ \E j \in JobIds : Evaluate_Done(j)
    \/ \E j \in JobIds : D_SetDone(j)
    \/ \E j \in JobIds : D_Finally(j)
    \/ \E j \in JobIds : Ack(j)

SpecBackfill == InitBackfill /\ [][NextBackfill]_vars

\* ------------------ redis_client.py worker records and worker queues
\* The contract of the worker keys on its own.  SpecWorkers: clients issue
\* the Redis commands of register, close_queue and unregister in any order
\* while one client runs get_open_workers_for_defense command by command.
\* SpecQueue: clients push to, pop from and delete the worker lists.
\* reg.pushed[w] / reg.popped[w]: attack ids pushed to / popped from the
\* list of w since it was last deleted; reg.lastpop: the last pop's reply.
RegWorkers == JobIds \X {0}
ScanWorkers == {w \in WorkerIds : w[1] = 1 \/ w[2] = 0}
RegDefenses == 1..NumRegDefenses
QueueItems == 1..NumItems

\* a write of another client during a running or finished scan
Touch(r) == [r EXCEPT !.scan.dirty = (r.scan.pc # "idle")]

\* register: hset(worker:{id}:metadata, mapping={...})
register_hset(w, d) ==
    /\ ~meta[w].exists
    /\ meta' = register_meta(meta, w, d, w[1])
    /\ reg' = Touch(reg)
    /\ UNCHANGED <<now, dbVars, queue, active, claims, dockerVars, broker,
                   pc, loc, crashes>>

\* register: sadd(workers:active, worker_id)
register_sadd(w) ==
    /\ meta[w].exists /\ w \notin active
    /\ active' = active \cup {w}
    /\ reg' = Touch(reg)
    /\ UNCHANGED <<now, dbVars, meta, queue, claims, dockerVars, broker,
                   pc, loc, crashes>>

\* close_queue(worker_id)
registry_close_queue(w) ==
    /\ meta[w].queue_state = "OPEN"
    /\ meta' = close_queue(meta, w)
    /\ reg' = Touch(reg)
    /\ UNCHANGED <<now, dbVars, queue, active, claims, dockerVars, broker,
                   pc, loc, crashes>>

\* unregister: delete(metadata); delete(attacks)
unregister_delete(w) ==
    /\ meta[w].exists \/ reg.pushed[w] # <<>>
    /\ meta' = unregister_meta(meta, w)
    /\ queue' = unregister_queue(queue, w)
    /\ reg' = [Touch(reg) EXCEPT !.pushed[w] = <<>>, !.popped[w] = <<>>]
    /\ UNCHANGED <<now, dbVars, active, claims, dockerVars, broker, pc, loc,
                   crashes>>

\* unregister: srem(workers:active, worker_id)
unregister_srem(w) ==
    /\ ~meta[w].exists /\ w \in active
    /\ active' = unregister_active(active, w)
    /\ reg' = Touch(reg)
    /\ UNCHANGED <<now, dbVars, meta, queue, claims, dockerVars, broker,
                   pc, loc, crashes>>

\* add_attack_to_queue(worker_id, attack_id), by backfill or a dispatcher
registry_push(w, a) ==
    /\ Len(reg.pushed[w]) < MaxPushes
    /\ queue' = add_attack_to_queue(queue, w, a)
    /\ reg' = [reg EXCEPT !.pushed[w] = Append(@, a)]
    /\ UNCHANGED <<now, dbVars, meta, active, claims, dockerVars, broker,
                   pc, loc, crashes>>

\* pop_next_attack(worker_id): blpop with timeout 1 s; None on timeout
registry_pop(w) ==
    /\ LET a == pop_next_attack(queue, w)
       IN /\ queue' = IF a = Null THEN queue ELSE [queue EXCEPT ![w] = Tail(@)]
          /\ reg' = [reg EXCEPT
                       !.popped[w] = IF a = Null THEN @ ELSE Append(@, a),
                       !.lastpop = [w |-> w, got |-> a]]
    /\ UNCHANGED <<now, dbVars, meta, active, claims, dockerVars, broker,
                   pc, loc, crashes>>

\* metadata.get("defense_submission_id") == str(defense_id) and
\* metadata.get("queue_state") == "OPEN"   (hgetall of a missing hash: {})
worker_matches_AnyState(M, w, d) == M[w].defense_submission_id = d

worker_matches(M, w, d) ==
    M[w].defense_submission_id = d /\ M[w].queue_state = "OPEN"

\* all_workers = smembers(workers:active); open_workers = []
scan_smembers(d) ==
    /\ reg.scan.pc # "scan"
    /\ reg' = [reg EXCEPT !.scan = [pc |-> "scan", d |-> d, todo |-> active,
                                    out |-> <<>>, dirty |-> FALSE]]
    /\ UNCHANGED <<now, dbVars, redisVars, dockerVars, broker, pc, loc, crashes>>

scan_hgetall_NoRead(w) ==
    /\ reg.scan.pc = "scan"
    /\ w \in reg.scan.todo
    /\ reg' = [reg EXCEPT !.scan.todo = @ \ {w}, !.scan.out = Append(@, w)]
    /\ UNCHANGED <<now, dbVars, redisVars, dockerVars, broker, pc, loc, crashes>>

\* for worker_id in all_workers: hgetall; append when both fields match
scan_hgetall(w) ==
    /\ reg.scan.pc = "scan"
    /\ w \in reg.scan.todo
    /\ reg' = [reg EXCEPT
                 !.scan.todo = @ \ {w},
                 !.scan.out = IF worker_matches(meta, w, reg.scan.d)
                              THEN Append(@, w) ELSE @]
    /\ UNCHANGED <<now, dbVars, redisVars, dockerVars, broker, pc, loc, crashes>>

\* return open_workers
scan_return ==
    /\ reg.scan.pc = "scan"
    /\ reg.scan.todo = {}
    /\ reg' = [reg EXCEPT !.scan.pc = "done"]
    /\ UNCHANGED <<now, dbVars, redisVars, dockerVars, broker, pc, loc, crashes>>

NextWorkers ==
    \/ \E w \in ScanWorkers, d \in RegDefenses : register_hset(w, d)
    \/ \E w \in ScanWorkers : register_sadd(w)
    \/ \E w \in ScanWorkers : registry_close_queue(w)
    \/ \E w \in ScanWorkers : unregister_delete(w)
    \/ \E w \in ScanWorkers : unregister_srem(w)
    \/ \E d \in RegDefenses : scan_smembers(d)
    \/ \E w \in ScanWorkers : scan_hgetall(w)
    \/ scan_return

NextQueue ==
    \/ \E w \in RegWorkers, a \in QueueItems : registry_push(w, a)
    \/ \E w \in RegWorkers : registry_pop(w)
    \/ \E w \in RegWorkers : unregister_delete(w)

SpecWorkers == InitRegistry /\ [][NextWorkers]_vars

SpecQueue == InitRegistry /\ [][NextQueue]_vars

\* ------------------------- defense/zip_handler.py _extract_zip_safely
\* An archive is a list of members; a member has a name (absolute or not,
\* and its components between the slashes) and an uncompressed size.
MaxEntries == 3         \* members of an archive
MaxDepth == 3           \* components of a relative member name
MaxSize == 2            \* uncompressed size of a member
MaxFileCount == 2       \* stands for MAX_FILE_COUNT = 10000
MaxTotalSize == 3       \* stands for MAX_TOTAL_SIZE = 10 GB

Components == {"a", ".."}
MemberNames ==
    {[abs |-> FALSE, comps |-> c] :
        c \in UNION {[1..n -> Components] : n \in 1..MaxDepth}}
    \cup {[abs |-> TRUE, comps |-> <<c>>] : c \in Components}
Members == [name : MemberNames, size : 1..MaxSize]
Archives == UNION {[1..n -> Members] : n \in 0..MaxEntries}

\* os.path.normpath on the components of a name: "." and "" are dropped,
\* "name/.." is collapsed, a ".." with nothing to collapse is kept in a
\* relative name and dropped in an absolute one
RECURSIVE norm_components(_, _, _)
norm_components(abs, comps, new) ==
    IF comps = <<>> THEN new
    ELSE LET c == Head(comps)
         IN IF c = "."
            THEN norm_components(abs, Tail(comps), new)
            ELSE IF \/ c # ".."
                    \/ (~abs /\ new = <<>>)
                    \/ (new # <<>> /\ new[Len(new)] = "..")
            THEN norm_components(abs, Tail(comps), Append(new, c))
            ELSE IF new # <<>>
            THEN norm_components(abs, Tail(comps),
                                 SubSeq(new, 1, Len(new) - 1))
            ELSE norm_components(abs, Tail(comps), new)

normpath_Raw(name) == [abs |-> name.abs, comps |-> name.comps]

\* normalized = os.path.normpath(member)
normpath(name) ==
    [abs |-> name.abs, comps |-> norm_components(name.abs, name.comps, <<>>)]

\* normalized.startswith('..') or os.path.isabs(normalized)
\* (no component of the model other than ".." begins with two dots)
is_malicious(name) ==
    LET normalized == normpath(name)
    IN \/ (~normalized.abs /\ normalized.comps # <<>>
            /\ normalized.comps[1] = "..")
       \/ normalized.abs

RECURSIVE total_size(_)
total_size(zf) ==
    IF zf = <<>> THEN 0 ELSE Head(zf).size + total_size(Tail(zf))

\* no call of _extract_zip_safely yet: the archive is on disk
NoZip(zf) == [pc |-> "open", zf |-> zf, extracted |-> <<>>, error |-> ""]

InitZip ==
    /\ now = [j \in JobIds |-> 0]
    /\ jobs = [j \in JobIds |-> NoJob]
    /\ defSub = [d \in Defenses |-> FreshDefense]
    /\ atkSub = [a \in Attacks |-> "submitted"]
    /\ runs = <<>>
    /\ results = <<>>
    /\ meta = [w \in WorkerIds |-> NoHash]
    /\ queue = [w \in WorkerIds |-> <<>>]
    /\ active = {}
    /\ claims = [p \in Defenses \X Attacks |-> Null]
    /\ broker = [j \in JobIds |-> "none"]
    /\ pc = [j \in JobIds |-> "idle"]
    /\ loc = [j \in JobIds |-> NoLoc]
    /\ containers = {}
    /\ networks = {}
    /\ crashes = 0
    /\ reg \in {NoZip(zf) : zf \in Archives}

ZipUnchanged ==
    UNCHANGED <<now, dbVars, redisVars, dockerVars, broker, pc, loc, crashes>>

\* for member in zf.namelist(): ... raise ValueError("Malicious path ...")
zip_check_paths ==
    /\ reg.pc = "open"
    /\ reg' = IF \E i \in 1..Len(reg.zf) : is_malicious(reg.zf[i].name)
              THEN [reg EXCEPT !.pc = "raised", !.error = "Malicious path in ZIP"]
              ELSE [reg EXCEPT !.pc = "paths_ok"]
    /\ ZipUnchanged

\* if len(zf.namelist()) > MAX_FILE_COUNT: raise ValueError
zip_check_count ==
    /\ reg.pc = "paths_ok"
    /\ reg' = IF Len(reg.zf) > MaxFileCount
              THEN [reg EXCEPT !.pc = "raised", !.error = "ZIP contains too many files"]
              ELSE [reg EXCEPT !.pc = "count_ok"]
    /\ ZipUnchanged

\* total_size = sum(info.file_size ...); if total_size > MAX_TOTAL_SIZE: raise
zip_check_size ==
    /\ reg.pc = "count_ok"
    /\ reg' = IF total_size(reg.zf) > MaxTotalSize
              THEN [reg EXCEPT !.pc = "raised", !.error = "ZIP uncompressed size too large"]
              ELSE [reg EXCEPT !.pc = "extract"]
    /\ ZipUnchanged

\* zf.extractall(extract_to): the members are written one after the other
zip_extract_member ==
    /\ reg.pc = "extract"
    /\ Len(reg.extracted) < Len(reg.zf)
    /\ reg' = [reg EXCEPT !.extracted = Append(@, reg.zf[Len(@) + 1].name)]
    /\ ZipUnchanged

zip_return ==
    /\ reg.pc = "extract"
    /\ Len(reg.extracted) = Len(reg.zf)
    /\ reg' = [reg EXCEPT !.pc = "returned"]
    /\ ZipUnchanged

\* except Exception as e: raise ValueError(f"Failed to extract ZIP: {e}")
zip_reraise ==
    /\ reg.pc = "raised"
    /\ reg' = [reg EXCEPT !.pc = "failed"]
    /\ ZipUnchanged

NextZip ==
    \/ zip_check_paths \/ zip_check_count \/ zip_check_size
    \/ zip_extract_member \/ zip_return \/ zip_reraise

SpecZip == InitZip /\ [][NextZip]_vars

\* --------------------------- defense/validation.py validate_functional
\* The state every contract below starts from: nothing has been enqueued,
\* delivered, registered or started.
Quiet ==
    /\ now = [j \in JobIds |-> 0]
    /\ jobs = [j \in JobIds |-> NoJob]
    /\ atkSub = [a \in Attacks |-> "submitted"]
    /\ runs = <<>>
    /\ results = <<>>
    /\ meta = [w \in WorkerIds |-> NoHash]
    /\ queue = [w \in WorkerIds |-> <<>>]
    /\ active = {}
    /\ claims = [p \in Defenses \X Attacks |-> Null]
    /\ broker = [j \in JobIds |-> "none"]
    /\ pc = [j \in JobIds |-> "idle"]
    /\ loc = [j \in JobIds |-> NoLoc]
    /\ containers = {}
    /\ networks = {}
    /\ crashes = 0

MB == 2                          \* stands for 1024 * 1024 bytes
max_uncompressed_size_mb == 1    \* stands for the configured limit (1024)
MaxImageBytes == 4               \* largest image.attrs['Size'] considered

\* client.images.get(image_name): the image is missing, or it has attrs
\* with a Size, or attrs without one (NoSize)
NoSize == -1
Images ==
    {[found |-> FALSE, Size |-> NoSize]}
    \cup {[found |-> TRUE, Size |-> s] : s \in (0..MaxImageBytes) \cup {NoSize}}

\* what the gateway answers to the probe: requests raises, or a response
\* with a status, a Content-Type and a "result" field (2: anything that
\* is neither 0 nor 1)
ProbeAnswers ==
    {[status |-> "RequestException", ctype |-> "", result |-> 2]}
    \cup [status : {"200", "500"},
          ctype : {"application/json", "text/html"},
          result : {0, 1, 2}]

\* size_bytes = image.attrs.get('Size', 0)
size_bytes(image) == IF image.Size = NoSize THEN 0 ELSE image.Size

image_too_large_Never(image) == FALSE

\* size_mb = size_bytes / (1024 * 1024); if size_mb > max_size_mb
\* (a true division: the comparison is the one of the byte counts)
image_too_large(image) == size_bytes(image) > max_uncompressed_size_mb * MB

\* the checks of _validate_post_endpoint on the probe's answer, in the
\* order of the code; "" when all pass
probe_error(r) ==
    IF r.status = "RequestException" THEN "Could not POST to port 8080"
    ELSE IF r.status # "200" THEN "POST / returned HTTP"
    ELSE IF r.ctype # "application/json" THEN "Expected application/json"
    ELSE IF r.result \notin {0, 1} THEN "Result field must be 0 or 1"
    ELSE ""

\* validate_functional has not been called: the defense is fresh, its
\* container runs, nothing was posted to it
NoValidation(image, answer) ==
    [pc |-> "start", image |-> image, answer |-> answer, posts |-> <<>>,
     error |-> ""]

InitValidate ==
    /\ Quiet
    /\ defSub = [d \in Defenses |-> FreshDefense]
    /\ reg \in {NoValidation(i, r) : i \in Images, r \in ProbeAnswers}

\* _validate_image_size(image_name, config)
validate_image_size ==
    /\ reg.pc = "start"
    /\ reg' = IF ~reg.image.found
              THEN [reg EXCEPT !.pc = "raised", !.error = "Image not found"]
              ELSE IF image_too_large(reg.image)
              THEN [reg EXCEPT !.pc = "raised",
                               !.error = "Image size exceeds limit"]
              ELSE [reg EXCEPT !.pc = "size_ok"]
    /\ UNCHANGED <<now, dbVars, redisVars, dockerVars, broker, pc, loc,
                   crashes>>

\* _validate_post_endpoint: requests.post(gateway_url, data = probe_data)
validate_post_endpoint ==
    /\ reg.pc = "size_ok"
    /\ reg' = [reg EXCEPT !.pc = "posted", !.posts = Append(@, "probe")]
    /\ UNCHANGED <<now, dbVars, redisVars, dockerVars, broker, pc, loc,
                   crashes>>

\* _validate_post_endpoint: the checks on the response
validate_probe_answer ==
    /\ reg.pc = "posted"
    /\ reg' = IF probe_error(reg.answer) = ""
              THEN [reg EXCEPT !.pc = "returned"]
              ELSE [reg EXCEPT !.pc = "raised",
                               !.error = probe_error(reg.answer)]
    /\ UNCHANGED <<now, dbVars, redisVars, dockerVars, broker, pc, loc,
                   crashes>>

\* run_defense_job around the validation: mark_defense_validated after a
\* normal return; except Exception: mark_defense_failed, raise ValueError
validation_caller ==
    /\ reg.pc \in {"returned", "raised"}
    /\ defSub' = IF reg.pc = "returned"
                 THEN mark_defense_validated(defSub, 1)
                 ELSE mark_defense_failed(defSub, 1, reg.error)
    /\ reg' = [reg EXCEPT !.pc = IF reg.pc = "returned" THEN "evaluate"
                                 ELSE "failed"]
    /\ UNCHANGED <<now, jobs, atkSub, runs, results, redisVars, dockerVars,
                   broker, pc, loc, crashes>>

\* the evaluation that follows a passed validation posts attack files
validation_then_evaluate ==
    /\ reg.pc = "evaluate"
    /\ Len(reg.posts) <= NumFiles
    /\ reg' = [reg EXCEPT !.posts = Append(@, "attack")]
    /\ UNCHANGED <<now, dbVars, redisVars, dockerVars, broker, pc, loc,
                   crashes>>

NextValidate ==
    \/ validate_image_size \/ validate_post_endpoint
    \/ validate_probe_answer \/ validation_caller
    \/ validation_then_evaluate

SpecValidate == InitValidate /\ [][NextValidate]_vars

\* ------------------------------------ defense/evaluate.py run_evaluation
\* run_evaluation starts the producer thread _fetch_samples and consumes
\* INTERNAL_QUEUE itself.  The two threads share the queue and status_dict;
\* each action below is one step of one thread.
MaxSamples == 3         \* samples the API streams to one call
MaxQueueSize == 1       \* stands for queue.Queue(maxsize=100)
MaxEvalCalls == 2       \* calls of run_evaluation for the defense

\* what the websocket delivers: samples (metadata with attack id and file
\* id, then the bytes) and then the way the stream ends
StreamEnds == {"done", "error", "JSONDecodeError", "Exception"}
Samples == [attack_submission_id : Attacks, file_id : Files]
Streams ==
    {[samples |-> s, end |-> e] :
        s \in UNION {[1..n -> Samples] : n \in 0..MaxSamples},
        e \in StreamEnds}

\* no call of run_evaluation yet
NoEvaluation ==
    [ws |-> [samples |-> <<>>, end |-> "done"], q |-> <<>>,
     status |-> "OPEN", producer |-> "idle", consumer |-> "idle",
     item |-> [attack_submission_id |-> Null, file_id |-> Null],
     evaluation_runs |-> [a \in Attacks |-> Null],
     calls |-> 0, puts |-> 0, base |-> 0]

InitRunEval ==
    /\ Quiet
    /\ defSub = [d \in Defenses |-> ValidatedDefense]
    /\ reg = NoEvaluation

EvalUnchanged ==
    UNCHANGED <<now, dbVars, redisVars, dockerVars, broker, pc, loc, crashes>>

\* INTERNAL_QUEUE = queue.Queue(maxsize=100); status_dict = {OPEN};
\* producer.start(); evaluation_runs = {}
\* (a later call is a later execution of the job for the same defense; it
\* is not started while a thread of the earlier one is still running)
run_evaluation_start(stream) ==
    /\ reg.consumer \in {"idle", "returned", "raised"}
    /\ reg.producer \in {"idle", "exited"}
    /\ reg.calls < MaxEvalCalls
    /\ reg' = [NoEvaluation EXCEPT !.ws = stream, !.producer = "recv",
                                   !.consumer = "get",
                                   !.calls = reg.calls + 1,
                                   !.base = Len(results)]
    /\ EvalUnchanged

\* _fetch_samples: metadata_str = ws.recv(); json.loads; status / error
\* checks; file_bytes = ws.recv().  Every way out of the loop, an
\* exception included, leads to the finally clause.
fetch_recv ==
    /\ reg.producer = "recv"
    /\ reg' = IF reg.ws.samples = <<>>
              THEN [reg EXCEPT !.producer = "finally"]
              ELSE [reg EXCEPT !.producer = "put"]
    /\ EvalUnchanged

\* q.put((metadata, file_bytes)): blocks while the queue is full
fetch_put ==
    /\ reg.producer = "put"
    /\ Len(reg.q) < MaxQueueSize
    /\ reg' = [reg EXCEPT !.q = Append(@, Head(reg.ws.samples)),
                          !.ws.samples = Tail(@),
                          !.puts = @ + 1,
                          !.producer = "recv"]
    /\ EvalUnchanged

\* finally: status_dict["status"] = QueueStatus.CLOSED
fetch_finally ==
    /\ reg.producer = "finally"
    /\ reg' = [reg EXCEPT !.status = "CLOSED", !.producer = "exited"]
    /\ EvalUnchanged

\* item = INTERNAL_QUEUE.get(timeout=1.0); except queue.Empty
consumer_get ==
    /\ reg.consumer = "get"
    /\ reg' = IF reg.q = <<>>
              THEN [reg EXCEPT !.consumer = "empty"]
              ELSE [reg EXCEPT !.item = Head(reg.q), !.q = Tail(@),
                               !.consumer = "process"]
    /\ EvalUnchanged

\* except queue.Empty: if status_dict["status"] == CLOSED: break; continue
consumer_empty_next ==
    IF reg.status = "CLOSED" THEN "join" ELSE "get"

consumer_empty ==
    /\ reg.consumer = "empty"
    /\ reg' = [reg EXCEPT !.consumer = consumer_empty_next]
    /\ EvalUnchanged

\* if attack_submission_id not in evaluation_runs: ensure_evaluation_run;
\* POST the sample; upsert_evaluation; INTERNAL_QUEUE.task_done()
consumer_process(o) ==
    /\ reg.consumer = "process"
    /\ LET a == reg.item.attack_submission_id
           known == reg.evaluation_runs[a] # Null
           run_id == IF known THEN reg.evaluation_runs[a] ELSE Len(runs) + 1
           row == parse_response(post_sample(o, 0))
       IN /\ runs' = IF known THEN runs ELSE ensure_evaluation_run(runs, 1, a)
          /\ results' = upsert_evaluation(results, run_id,
                                          <<a, reg.item.file_id>>,
                                          row[1], row[2])
          /\ reg' = [reg EXCEPT !.evaluation_runs[a] = run_id,
                                !.consumer = "get"]
    /\ UNCHANGED <<now, jobs, defSub, atkSub, redisVars, dockerVars, broker,
                   pc, loc, crashes>>

\* a statement of the loop body raises (the store is unavailable to
\* ensure_evaluation_run or upsert_evaluation): the exception leaves
\* run_evaluation, producer.join() is not reached
consumer_raises ==
    /\ reg.consumer = "process"
    /\ crashes < MaxCrashes
    /\ crashes' = crashes + 1
    /\ reg' = [reg EXCEPT !.consumer = "raised"]
    /\ UNCHANGED <<now, dbVars, redisVars, dockerVars, broker, pc, loc>>

\* producer.join(): returns when the producer thread has ended
consumer_join ==
    /\ reg.consumer = "join"
    /\ reg.producer = "exited"
    /\ reg' = [reg EXCEPT !.consumer = "returned"]
    /\ EvalUnchanged

ProducerStep == fetch_recv \/ fetch_put \/ fetch_finally
ConsumerStep ==
    \/ consumer_get \/ consumer_empty \/ consumer_join
    \/ \E o \in PerFileOutcomes : consumer_process(o)

NextRunEval ==
    \/ \E stream \in Streams : run_evaluation_start(stream)
    \/ fetch_recv \/ fetch_put \/ fetch_finally
    \/ consumer_get \/ consumer_empty \/ consumer_join
    \/ \E o \in PerFileOutcomes : consumer_process(o)
    \/ consumer_raises

SpecRunEval == InitRunEval /\ [][NextRunEval]_vars

\* both threads are scheduled as long as they have a step to take
FairSpecRunEval ==
    SpecRunEval /\ WF_vars(ProducerStep) /\ WF_vars(ConsumerStep)

\* ------------------------- tasks.py run_defense_job, the finally clause
\* The clause step by step, for a job 1 whose worker is registered; each
\* step either works or raises, as chosen when the clause is entered.
TeardownCalls == {"unregister", "stop", "remove", "disconnect",
                  "network_remove"}
TeardownWorker == <<1, 0>>

\* the finally clause is entered: `container` and `network` hold an object
\* or None; calls is the set of calls that will raise
NoTeardown(container, network, raising) ==
    [pc |-> "unregister", container |-> container, network |-> network,
     raising |-> raising, attempted |-> {}, warnings |-> 0]

InitTeardown ==
    /\ now = [j \in JobIds |-> 0]
    /\ jobs = [j \in JobIds |->
                 IF j = 1 THEN [kind |-> "defense", status |-> "done",
                                error |-> "", sub |-> 1]
                 ELSE NoJob]
    /\ defSub = [d \in Defenses |-> ValidatedDefense]
    /\ atkSub = [a \in Attacks |-> "ready"]
    /\ runs = <<>>
    /\ results = <<>>
    /\ meta = register_meta([w \in WorkerIds |-> NoHash], TeardownWorker, 1, 1)
    /\ queue = [w \in WorkerIds |-> <<>>]
    /\ active = {TeardownWorker}
    /\ claims = [p \in Defenses \X Attacks |-> Null]
    /\ broker = [j \in JobIds |-> IF j = 1 THEN "inflight" ELSE "none"]
    /\ pc = [j \in JobIds |-> IF j = 1 THEN "finally" ELSE "idle"]
    /\ loc = [j \in JobIds |-> NoLoc]
    /\ crashes = 0
    /\ \E c, n \in BOOLEAN :
          /\ c => n
          /\ containers = IF c THEN {1} ELSE {}
          /\ networks = IF n THEN {1} ELSE {}
          /\ reg \in {NoTeardown(c, n, r) : r \in SUBSET TeardownCalls}

\* where the clause goes on after the container block
AfterContainer == IF reg.network THEN "disconnect" ELSE "done"

\* what a call that is reached does to the record of the clause
Attempt(call, next) ==
    [reg EXCEPT !.pc = next, !.attempted = @ \cup {call},
                !.warnings = IF call \in reg.raising THEN @ + 1 ELSE @]

\* try: registry.unregister(worker_id) except: logger.warning
teardown_unregister ==
    /\ reg.pc = "unregister"
    /\ reg' = Attempt("unregister",
                      IF reg.container THEN "stop" ELSE AfterContainer)
    /\ IF "unregister" \in reg.raising
       THEN UNCHANGED <<meta, queue, active>>
       ELSE /\ meta' = unregister_meta(meta, TeardownWorker)
            /\ queue' = unregister_queue(queue, TeardownWorker)
            /\ active' = unregister_active(active, TeardownWorker)
    /\ UNCHANGED <<now, dbVars, claims, dockerVars, broker, pc, loc, crashes>>

\* if container: try: container.stop(timeout=2) ... except: logger.warning
\* (stop and remove share one try block)
teardown_stop ==
    /\ reg.pc = "stop"
    /\ reg' = Attempt("stop", IF "stop" \in reg.raising THEN AfterContainer
                              ELSE "remove")
    /\ UNCHANGED <<now, dbVars, redisVars, dockerVars, broker, pc, loc,
                   crashes>>

\* ... container.remove()
teardown_remove ==
    /\ reg.pc = "remove"
    /\ reg' = Attempt("remove", AfterContainer)
    /\ containers' = IF "remove" \in reg.raising THEN containers
                     ELSE containers \ {1}
    /\ UNCHANGED <<now, dbVars, redisVars, networks, broker, pc, loc, crashes>>

\* if network: try: network.disconnect(gateway_container, force=True)
\* except: logger.warning
teardown_disconnect ==
    /\ reg.pc = "disconnect"
    /\ reg' = Attempt("disconnect", "network_remove")
    /\ UNCHANGED <<now, dbVars, redisVars, dockerVars, broker, pc, loc,
                   crashes>>

\* try: network.remove() except: logger.warning
teardown_network_remove ==
    /\ reg.pc = "network_remove"
    /\ reg' = Attempt("network_remove", "done")
    /\ networks' = IF "network_remove" \in reg.raising THEN networks
                   ELSE networks \ {1}
    /\ UNCHANGED <<now, dbVars, redisVars, containers, broker, pc, loc,
                   crashes>>

NextTeardown ==
    \/ teardown_unregister \/ teardown_stop \/ teardown_remove
    \/ teardown_disconnect \/ teardown_network_remove

SpecTeardown == InitTeardown /\ [][NextTeardown]_vars

\* ------------- tasks.py run_defense_job, two deliveries of one envelope
\* task_acks_late: the envelope of job 1 stays unacknowledged while its
\* task runs.  When the broker gives up on the acknowledgement (the
\* channel of the worker is lost, or the acknowledgement timeout passes)
\* it queues the envelope again although the task is still running, and
\* a second worker process executes the same job_id.
Execs == 1..2
NoExec == [pc |-> "idle", t |-> 0, container |-> FALSE, network |-> FALSE,
           raised |-> ""]
LiveExecs == {e \in Execs : reg.exec[e].pc \notin {"idle", "returned"}}

\* worker_id = f"worker_{job_id}_{int(time.time())}"
worker_id(e) == <<1, reg.exec[e].t>>
\* network_name = f"eval_net_{job_id}"
network_name(e) == 1
\* container_name = f"eval_defense_{job_id}"
container_name(e) == 1

InitRedelivery ==
    /\ now = [j \in JobIds |-> 0]
    /\ jobs = insert_job([j \in JobIds |-> NoJob], 1, "defense", 1)
    /\ defSub = [d \in Defenses |-> ValidatedDefense]
    /\ atkSub = [a \in Attacks |-> "ready"]
    /\ runs = <<>>
    /\ results = <<>>
    /\ meta = [w \in WorkerIds |-> NoHash]
    /\ queue = [w \in WorkerIds |-> <<>>]
    /\ active = {}
    /\ claims = [p \in Defenses \X Attacks |-> Null]
    /\ broker = [j \in JobIds |-> IF j = 1 THEN "ready" ELSE "none"]
    /\ pc = [j \in JobIds |-> "idle"]
    /\ loc = [j \in JobIds |-> NoLoc]
    /\ containers = {}
    /\ networks = {}
    /\ crashes = 0
    /\ reg = [exec |-> [e \in Execs |-> NoExec]]

\* the broker queues the unacknowledged envelope again
requeue_unacked ==
    /\ broker[1] = "inflight"
    /\ LiveExecs # {}
    /\ broker' = [broker EXCEPT ![1] = "ready"]
    /\ UNCHANGED <<now, dbVars, redisVars, dockerVars, pc, loc, crashes, reg>>

\* a worker process takes the envelope: worker_id is computed in second t
\* (the clock does not go back); try: set_job_status(job_id, "running")
exec_start(e, t) ==
    /\ broker[1] = "ready"
    /\ reg.exec[e].pc = "idle"
    /\ \A o \in Execs : o < e => reg.exec[o].pc # "idle"
    /\ \A o \in Execs : reg.exec[o].pc # "idle" => t >= reg.exec[o].t
    /\ broker' = [broker EXCEPT ![1] = "inflight"]
    /\ jobs' = set_job_status(jobs, 1, "running", "")
    /\ reg' = [reg EXCEPT !.exec[e].pc = "register", !.exec[e].t = t]
    /\ UNCHANGED <<now, defSub, atkSub, runs, results, redisVars, dockerVars,
                   pc, loc, crashes>>

\* registry.register(worker_id, ...); backfill of the unevaluated attacks
exec_register(e) ==
    /\ reg.exec[e].pc = "register"
    /\ meta' = register_meta(meta, worker_id(e), 1, 1)
    /\ active' = active \cup {worker_id(e)}
    /\ queue' = PushAll(queue, worker_id(e), get_unevaluated_attacks(1))
    /\ reg' = [reg EXCEPT !.exec[e].pc = "sandbox"]
    /\ UNCHANGED <<now, dbVars, claims, dockerVars, broker, pc, loc, crashes>>

\* networks.create(network_name); containers.run(name = container_name);
\* readiness poll.  A container name in use makes containers.run raise;
\* a network name in use is accepted or refused depending on the engine.
exec_sandbox(e, out) ==
    /\ reg.exec[e].pc = "sandbox"
    /\ out \in SandboxOutcomes
    /\ container_name(e) \in containers => out \in {"network_error", "run_error"}
    /\ networks' = IF out = "network_error" THEN networks
                   ELSE networks \cup {network_name(e)}
    /\ containers' = IF out \in {"start_error", "not_ready", "ready"}
                     THEN containers \cup {container_name(e)} ELSE containers
    /\ reg' = [reg EXCEPT
                 !.exec[e].network = (out # "network_error"),
                 !.exec[e].container = (out \in {"not_ready", "ready"}),
                 !.exec[e].raised = IF out = "ready" THEN "" ELSE out,
                 !.exec[e].pc = IF out = "ready" THEN "evaluate" ELSE "except"]
    /\ UNCHANGED <<now, dbVars, redisVars, broker, pc, loc, crashes>>

\* the evaluation loop: an attack is popped from the own queue and its run
\* is created and completed (the per-file rows are left out here); an
\* empty queue ends the loop and set_job_status(job_id, "done") follows
exec_evaluate(e) ==
    /\ reg.exec[e].pc = "evaluate"
    /\ LET a == pop_next_attack(queue, worker_id(e))
       IN IF a = Null
          THEN /\ jobs' = set_job_status(jobs, 1, "done", "")
               /\ reg' = [reg EXCEPT !.exec[e].pc = "finally"]
               /\ UNCHANGED <<queue, runs>>
          ELSE /\ queue' = [queue EXCEPT ![worker_id(e)] = Tail(@)]
               /\ runs' = mark_run_done(ensure_evaluation_run(runs, 1, a),
                                        Len(runs) + 1)
               /\ UNCHANGED <<jobs, reg>>
    /\ UNCHANGED <<now, defSub, atkSub, results, meta, active, claims,
                   dockerVars, broker, pc, loc, crashes>>

\* except Exception as exc: set_job_status(job_id, "failed", str(exc))
exec_except(e) ==
    /\ reg.exec[e].pc = "except"
    /\ jobs' = set_job_status(jobs, 1, "failed", reg.exec[e].raised)
    /\ reg' = [reg EXCEPT !.exec[e].pc = "finally"]
    /\ UNCHANGED <<now, defSub, atkSub, runs, results, redisVars, dockerVars,
                   broker, pc, loc, crashes>>

\* finally: registry.unregister(worker_id); if container: stop, remove;
\* if network: disconnect, remove (the object this execution created: a
\* network of the same name that another execution created stays)
exec_finally(e) ==
    /\ reg.exec[e].pc = "finally"
    /\ meta' = unregister_meta(meta, worker_id(e))
    /\ queue' = unregister_queue(queue, worker_id(e))
    /\ active' = unregister_active(active, worker_id(e))
    /\ containers' = IF reg.exec[e].container
                     THEN containers \ {container_name(e)} ELSE containers
    /\ networks' = IF /\ reg.exec[e].network
                      /\ \A o \in Execs \ {e} : ~reg.exec[o].network
                   THEN networks \ {network_name(e)} ELSE networks
    /\ reg' = [reg EXCEPT !.exec[e].pc = "returned",
                          !.exec[e].container = FALSE,
                          !.exec[e].network = FALSE]
    /\ UNCHANGED <<now, dbVars, claims, broker, pc, loc, crashes>>

NextRedelivery ==
    \/ requeue_unacked
    \/ \E e \in Execs, t \in Times : exec_start(e, t)
    \/ \E e \in Execs : exec_register(e)
    \/ \E e \in Execs, out \in SandboxOutcomes : exec_sandbox(e, out)
    \/ \E e \in Execs : exec_evaluate(e)
    \/ \E e \in Execs : exec_except(e)
    \/ \E e \in Execs : exec_finally(e)

SpecRedelivery == InitRedelivery /\ [][NextRedelivery]_vars

\* The process that runs mark_evaluation_queued is lost between two Redis
\* commands (worker killed, connection dropped): its call never resumes.
CallerLost(c) ==
    /\ reg.call[c].pc = "setnx_done"
    /\ crashes < MaxCrashes
    /\ crashes' = crashes + 1
    /\ reg' = [reg EXCEPT !.call[c] = NoCall]
    /\ UNCHANGED <<now, dbVars, redisVars, dockerVars, broker, pc, loc>>

NextRegistryCrash ==
    \/ NextRegistry
    \/ \E c \in JobIds : CallerLost(c)

\* A call that is not lost goes on, and the Redis clock goes on.
FairSpecRegistry ==
    /\ InitRegistry /\ [][NextRegistryCrash]_vars
    /\ WF_vars(\E c \in JobIds : mark_evaluation_queued_return(c))
    /\ WF_vars(\E p \in Defenses \X Attacks : ClaimTick(p))

\* ------------------------------------------------------------ fairness
\* Celery workers keep consuming and a started task keeps running; the
\* Dispatch API and the loss of a worker process are not forced.
WorkerStep ==
    \/ \E j \in JobIds, t \in Times : Deliver(j, t)
    \/ \E j \in JobIds : DefenseJob(j)
    \/ \E j \in JobIds : AttackJob(j)
    \/ \E j \in JobIds : Ack(j)

FairSpec == Spec /\ WF_vars(WorkerStep)

\* ================================================================ claims
ValidatedDefenseSub(d) ==
    defSub[d].is_functional = "true" /\ defSub[d].status = "ready"
ValidatedAttackSub(a) == atkSub[a] = "ready"
RunsOf(d, a) == {r \in RunIds : /\ runs[r].defense_submission_id = d
                                /\ runs[r].attack_submission_id = a}
NonTerminalRuns(d, a) ==
    {r \in RunsOf(d, a) : runs[r].status \in {"queued", "running"}}
TerminalRuns(d, a) ==
    {r \in RunsOf(d, a) : runs[r].status \in {"done", "failed"}}
ResultsOf(r) == {k \in 1..Len(results) : results[k].evaluation_run_id = r}
KeysOf(w) == {k \in {"metadata", "attacks", "active"} :
                \/ k = "metadata" /\ meta[w].exists
                \/ k = "attacks" /\ queue[w] # <<>>
                \/ k = "active" /\ w \in active}

\* C1: for every pair of a validated defense and a validated attack at most
\* one evaluation run is queued or running, whatever the interleaving of
\* attack-jobs and (possibly concurrent) defense-jobs.
C1_AtMostOneNonTerminalRun ==
    \A d \in Defenses, a \in Attacks :
        (ValidatedDefenseSub(d) /\ ValidatedAttackSub(a))
            => Cardinality(NonTerminalRuns(d, a)) <= 1

\* C2: when an attack-job envelope for an attack waits at the broker and a
\* defense is validated, then eventually both are validated and the pair
\* has exactly one evaluation run in a terminal state (workers and broker
\* delivery scheduled fairly).
C2_PairEventuallyEvaluatedOnce ==
    \A d \in Defenses, a \in Attacks :
        ( /\ ValidatedDefenseSub(d)
          /\ \E j \in JobIds : IsAttack(j) /\ jobs[j].sub = a /\ broker[j] = "ready" )
        ~> ( ValidatedAttackSub(a) /\ Cardinality(TerminalRuns(d, a)) = 1 )

\* C3: when two attack-jobs race on the same pair (both are at the claim of
\* the same defense for the same attack, no run in progress) and one of
\* them takes its step, the claim key is then held by one of the two and
\* the stepping job goes on (it dispatches or skips, it does not fail).
C3_RaceHasOneWinner ==
    [][\A j1, j2 \in JobIds :
        ( /\ j1 # j2
          /\ IsAttack(j1) /\ IsAttack(j2) /\ jobs[j1].sub = jobs[j2].sub
          /\ pc[j1] = "loop" /\ pc[j2] = "loop"
          /\ loc[j1].i <= Len(loc[j1].defs) /\ loc[j2].i <= Len(loc[j2].defs)
          /\ loc[j1].defs[loc[j1].i] = loc[j2].defs[loc[j2].i]
          /\ ~is_evaluation_in_progress(loc[j1].defs[loc[j1].i], jobs[j1].sub)
          /\ loc'[j1] # loc[j1] )
        => /\ claims'[<<loc[j1].defs[loc[j1].i], jobs[j1].sub>>] \in {j1, j2}
           /\ pc'[j1] = "loop"]_vars

\* C4: when a processing of an attack-job envelope has ended, every defense
\* of its snapshot of validated defenses was dispatched (its claim key is
\* installed) or skipped because a run of the pair exists.
C4_RunDispatchesEachDefense ==
    \A j \in JobIds :
        (IsAttack(j) /\ pc[j] = "return")
            => \A k \in 1..Len(loc[j].defs) :
                   \/ claims[<<loc[j].defs[k], jobs[j].sub>>] # Null
                   \/ RunsOf(loc[j].defs[k], jobs[j].sub) # {}

C7_TerminalJobNeverMutated ==
    [][\A j \in JobIds :
        jobs[j].status \in {"done", "failed"} => jobs'[j] = jobs[j]]_vars

\* C8: a task that starts for a defense job whose row is already done
\* (redelivered envelope) changes nothing in the relational store, the
\* registry or docker.
C8_RedeliveryOfDoneJobIsNoOp ==
    [][\A j \in JobIds :
        ( /\ IsDefense(j) /\ jobs[j].status = "done"
          /\ pc[j] \notin {"idle", "finally", "return"}
          /\ pc'[j] # pc[j] )
        => /\ UNCHANGED <<jobs, defSub, atkSub, runs, results>>
           /\ UNCHANGED <<meta, queue, active, claims>>
           /\ UNCHANGED <<containers, networks>>]_vars

\* C9: an evaluation run with status done has exactly one result row per
\* attack file of its attack submission.
C9_DoneRunHasOneResultPerFile ==
    \A r \in RunIds :
        runs[r].status = "done"
            => /\ Cardinality(ResultsOf(r))
                    = Len(get_attack_files(runs[r].attack_submission_id))
               /\ \A f \in 1..Len(get_attack_files(runs[r].attack_submission_id)) :
                    \E k \in ResultsOf(r) :
                        results[k].attack_file_id
                          = <<runs[r].attack_submission_id,
                              get_attack_files(runs[r].attack_submission_id)[f]>>

\* C10: while the claim key of a pair exists exactly one call has returned
\* or will return True for it, the key holds the job id of that call, and
\* every call that found the key present got False and left it unchanged;
\* when the key is absent no call holds a True for it.
C10_SetIfAbsent ==
    \A p \in Defenses \X Attacks :
        LET pending == {c \in JobIds : /\ reg.call[c].pc = "setnx_done"
                                       /\ reg.call[c].key = p
                                       /\ reg.call[c].result}
        IN  IF claims[p] = Null
            THEN reg.trues[p] = <<>> /\ pending = {}
            ELSE /\ Len(reg.trues[p]) + Cardinality(pending) = 1
                 /\ \A k \in 1..Len(reg.trues[p]) : reg.trues[p][k] = claims[p]
                 /\ \A c \in pending : c = claims[p]

\* C10 witness: the key is installed, its installer has returned True, and
\* two later calls for the same pair have returned False.
C10_Witness ==
    \E p \in Defenses \X Attacks :
        /\ claims[p] # Null
        /\ Len(reg.trues[p]) = 1
        /\ reg.falses >= 2

\* C11: every installed claim key is eventually removed from the registry,
\* also when the process that installed it is lost right after installing.
C11_ClaimEventuallyExpires ==
    \A p \in Defenses \X Attacks : (claims[p] # Null) ~> (claims[p] = Null)

\* C12: a pop from a worker queue replies with the attack id that was pushed
\* earliest among those pushed to that worker and not yet popped, and
\* removes exactly it; on an empty queue it replies null and leaves the
\* registry as it was.
C12_QueueIsFifo ==
    [][\A w \in RegWorkers :
        ( /\ reg'.lastpop.w = w
          /\ \/ reg'.lastpop # reg.lastpop
             \/ Len(reg'.popped[w]) > Len(reg.popped[w]) )
        => LET waiting == SubSeq(reg.pushed[w], Len(reg.popped[w]) + 1,
                                 Len(reg.pushed[w]))
           IN IF waiting = <<>>
              THEN reg'.lastpop.got = Null /\ UNCHANGED <<meta, queue, active, claims>>
              ELSE /\ reg'.lastpop.got = Head(waiting)
                   /\ queue' = [queue EXCEPT ![w] = Tail(waiting)]
                   /\ UNCHANGED <<meta, active, claims>>]_vars

\* C12 witness: two different attack ids were pushed to a worker and one
\* pop has returned and removed the first of them.
C12_Witness ==
    \E w \in RegWorkers :
        /\ Len(reg.pushed[w]) >= 2
        /\ reg.pushed[w][1] # reg.pushed[w][2]
        /\ reg.popped[w] = <<reg.pushed[w][1]>>
        /\ reg.lastpop = [w |-> w, got |-> reg.pushed[w][1]]
        /\ queue[w] = <<reg.pushed[w][2]>>

\* C13: a call of get_open_workers_for_defense(d) during which no other
\* client wrote returns exactly the members of workers:active whose record
\* has defense_submission_id = d and queue_state = OPEN, each once.
C13_OpenWorkersExact ==
    (reg.scan.pc = "done" /\ ~reg.scan.dirty)
        => LET out == reg.scan.out
               want == {w \in WorkerIds :
                          /\ w \in active
                          /\ meta[w].defense_submission_id = reg.scan.d
                          /\ meta[w].queue_state = "OPEN"}
           IN /\ {out[k] : k \in 1..Len(out)} = want
              /\ Len(out) = Cardinality(want)

\* C13 witness: a call has returned one worker while three workers are
\* active: an OPEN one of the defense, a CLOSED one of the same defense
\* and an OPEN one of another defense.
C13_Witness ==
    /\ reg.scan.pc = "done" /\ ~reg.scan.dirty
    /\ Len(reg.scan.out) = 1
    /\ \E w1, w2 \in active :
          /\ meta[w1].defense_submission_id = reg.scan.d
          /\ meta[w1].queue_state = "CLOSED"
          /\ meta[w2].defense_submission_id \notin {reg.scan.d, Null}
          /\ meta[w2].queue_state = "OPEN"

\* C13, empty case: a call has returned the empty list while workers are
\* active, none of them OPEN for the defense.
C13_WitnessEmpty ==
    /\ reg.scan.pc = "done" /\ ~reg.scan.dirty
    /\ reg.scan.out = <<>> /\ active # {}

\* C14: when a defense job that raised after registering its worker (and
\* met no worker loss or teardown fault) has run its teardown, no registry
\* key of its worker is left and no container and no network of the job
\* exists.
C14_TeardownRemovesEverything ==
    \A j \in JobIds :
        ( /\ IsDefense(j) /\ pc[j] = "return"
          /\ loc[j].raised # ""
          /\ crashes = 0 )
        => /\ KeysOf(loc[j].wid) = {}
           /\ j \notin containers
           /\ j \notin networks

\* C15: the teardown of a defense job, also when one of its steps raises,
\* leaves the jobs row and the exception that is propagated as they were;
\* after it a done job propagates nothing and a failed job propagates the
\* cause that is written in its row.
C15_TeardownErrorsAreLoggedOnly ==
    [][\A j \in JobIds :
        (IsDefense(j) /\ pc[j] = "finally" /\ pc'[j] = "return")
        => /\ jobs'[j] = jobs[j]
           /\ loc'[j].raised = loc[j].raised
           /\ jobs'[j].status = "done" => loc'[j].raised = ""
           /\ jobs'[j].status = "failed" => loc'[j].raised = jobs'[j].error
           /\ jobs'[j].status \in {"done", "failed"}]_vars

\* C15 witness: two teardowns in which a step raised have ended: one of a
\* job that failed (its container is still there) ...
C15_WitnessFailed ==
    \E j \in JobIds :
        /\ IsDefense(j) /\ pc[j] = "return"
        /\ loc[j].container /\ j \in containers
        /\ jobs[j].status = "failed" /\ loc[j].raised = "validation"

\* ... and one of a job that is done (its worker keys are still there).
C15_Witness ==
    \E j \in JobIds :
        /\ IsDefense(j) /\ pc[j] = "return"
        /\ meta[loc[j].wid].exists /\ loc[j].wid \in active
        /\ jobs[j].status = "done" /\ loc[j].raised = ""

\* the outcome that counts for a file: that of the first POST, or that of
\* the second POST when the first one met a connection error
FinalOutcome(beh) ==
    IF beh[1][1] = "ConnectionError" THEN beh[2] ELSE beh[1]
IsPrediction(o) == o \in {<<"200", "0">>, <<"200", "1">>}
PerFileFailure(beh) == ~IsPrediction(FinalOutcome(beh))
FileStep(j) ==
    /\ IsDefense(j) /\ pc[j] = "eval_files"
    /\ loc'[j].fidx = loc[j].fidx + 1
LastRow(E) == E[Len(E)]

C17_ErrorIffNoOutput ==
    \A k \in 1..Len(results) :
        /\ (results[k].error # "") <=> (results[k].model_output = NoOutput)
        /\ results[k].model_output \in {NoOutput, 0, 1}

\* C17 witness: one run has a row with an error and no output and a row
\* with an output and no error.
C17_Witness ==
    \E k1, k2 \in 1..Len(results) :
        /\ results[k1].evaluation_run_id = results[k2].evaluation_run_id
        /\ results[k1].error = "Invalid prediction"
        /\ results[k1].model_output = NoOutput
        /\ results[k2].error = "" /\ results[k2].model_output = 0

\* the prediction a response carries
PredictionOf(o) == IF o = <<"200", "0">> THEN 0 ELSE 1

\* C18: a file whose first POST meets a connection error is posted exactly
\* once more; a file whose first POST ends in any other way is posted
\* once; no file is posted more than twice; and when the retry after a
\* connection error brings a prediction, the row carries that prediction
\* and no error.
C18_ConnectionErrorRetriedOnce ==
    [][\A j \in JobIds :
        FileStep(j)
        => LET beh == loc'[j].last
           IN /\ loc'[j].posts <= 2
              /\ beh[1][1] = "ConnectionError" => loc'[j].posts = 2
              /\ beh[1][1] # "ConnectionError" => loc'[j].posts = 1
              /\ (beh[1][1] = "ConnectionError" /\ IsPrediction(beh[2]))
                 => /\ LastRow(results').model_output = PredictionOf(beh[2])
                    /\ LastRow(results').error = ""]_vars

\* position of a file in the creation order of its attack's files
CreationRank(f) ==
    CHOOSE i \in 1..Len(get_attack_files(f[1])) : get_attack_files(f[1])[i] = f[2]

\* C19: within one run, a result row of a file created earlier is never
\* written after a result row of a file of the same attack created later.
C19_RowsInCreationOrder ==
    \A k1, k2 \in 1..Len(results) :
        ( /\ results[k1].evaluation_run_id = results[k2].evaluation_run_id
          /\ CreationRank(results[k1].attack_file_id)
                < CreationRank(results[k2].attack_file_id) )
        => k1 < k2

\* C20: the step of an attack-job at a validated defense that passes both
\* skip checks (no run of the pair in progress, claim key not held by
\* another job) does exactly one of two things: it appends the attack to
\* the queue of exactly one OPEN worker of that defense and creates no
\* job; or it touches no queue, inserts exactly one queued defense-job row
\* for that defense and publishes exactly one envelope for it.
C20_PushOrOneDefenseJob ==
    [][\A j \in JobIds :
        ( /\ IsAttack(j) /\ pc[j] = "loop"
          /\ loc[j].i <= Len(loc[j].defs)
          /\ ~is_evaluation_in_progress(loc[j].defs[loc[j].i], jobs[j].sub)
          /\ claims[<<loc[j].defs[loc[j].i], jobs[j].sub>>] = Null
          /\ loc'[j] # loc[j] )
        => LET d == loc[j].defs[loc[j].i]
               a == jobs[j].sub
               pushedTo == {w \in WorkerIds : queue'[w] # queue[w]}
               newJobs == {k \in JobIds : jobs'[k] # jobs[k]}
               published == {k \in JobIds : broker'[k] # broker[k]}
           IN \/ /\ \E w \in active :
                       /\ pushedTo = {w}
                       /\ meta[w].defense_submission_id = d
                       /\ meta[w].queue_state = "OPEN"
                       /\ queue'[w] = Append(queue[w], a)
                 /\ newJobs = {} /\ published = {}
              \/ /\ pushedTo = {}
                 /\ \E k \in JobIds :
                       /\ newJobs = {k} /\ published = {k}
                       /\ jobs[k].kind = "none"
                       /\ jobs'[k] = [kind |-> "defense", status |-> "queued",
                                      error |-> "", sub |-> d]
                       /\ broker'[k] = "ready"]_vars

\* the defense an attack-job is at, and the reasons to skip it
AtDefense(j) ==
    IsAttack(j) /\ pc[j] = "loop" /\ loc[j].i <= Len(loc[j].defs)
\* a step of the task of job j (not the loss of its worker process)
TaskStep(j) == <<pc[j], loc[j]>>' # <<pc[j], loc[j]>> /\ pc'[j] # "idle"
SkipsDefense(j) ==
    \/ NonTerminalRuns(loc[j].defs[loc[j].i], jobs[j].sub) # {}
    \/ claims[<<loc[j].defs[loc[j].i], jobs[j].sub>>] \notin {Null, j}

RECURSIVE Elems(_)
Elems(q) == IF q = <<>> THEN {} ELSE {Head(q)} \cup Elems(Tail(q))

C23_ValidationFailure ==
    /\ [][\A j \in JobIds :
            /\ (pc[j] = "validate" /\ TaskStep(j) /\ loc'[j].raised # "")
               => /\ defSub'[jobs[j].sub] =
                        [is_functional |-> "false", status |-> "failed",
                         functional_error |-> loc'[j].raised]
                  /\ pc'[j] = "except"
            /\ (IsDefense(j) /\ loc[j].raised = "validation" /\ TaskStep(j))
               => /\ pc'[j] \in {"finally", "return"}
                  /\ runs' = runs /\ results' = results
                  /\ pc[j] = "except" => jobs'[j].status = "failed"]_vars
    /\ [](\A j \in JobIds :
            (IsDefense(j) /\ loc[j].raised = "validation")
            => /\ pc[j] \in {"except", "finally", "return"}
               /\ \A a \in Attacks : loc[j].run_of[a] = Null
               /\ loc[j].posts = 0
               /\ pc[j] \in {"finally", "return"} =>
                     /\ jobs[j].status = "failed"
                     /\ jobs[j].error = "validation"
               /\ (pc[j] = "return" /\ crashes = 0) =>
                     /\ KeysOf(loc[j].wid) = {}
                     /\ j \notin containers /\ j \notin networks)

\* C23 witness: a job whose validation failed has returned after a
\* fault-free teardown; the defense row is failed with the message, and a
\* ready attack without a run was there to be evaluated.
C23_Witness ==
    \E j \in JobIds :
        /\ IsDefense(j) /\ pc[j] = "return" /\ loc[j].raised = "validation"
        /\ crashes = 0 /\ jobs[j].status = "failed"
        /\ defSub[jobs[j].sub].status = "failed"
        /\ defSub[jobs[j].sub].functional_error = "validation"
        /\ \E a \in Attacks : atkSub[a] = "ready"
        /\ runs = <<>>

\* C24: a defense-job that found its defense fresh (is_functional
\* unknown), brought its container up and went through validation while
\* no attack is ready has, when it returns, left the defense with
\* is_functional = true and status = ready, its own row done and no result
\* row.
C24_FreshDefenseValidated ==
    \A j \in JobIds :
        ( /\ IsDefense(j) /\ pc[j] = "return"
          /\ loc[j].needs_validation
          /\ loc[j].raised \in {"", "validation"}
          /\ \A a \in Attacks : atkSub[a] # "ready" )
        => /\ defSub[jobs[j].sub].is_functional = "true"
           /\ defSub[jobs[j].sub].status = "ready"
           /\ jobs[j].status = "done"
           /\ results = <<>>

\* what a defense-job can raise before it reaches validation: no image
\* (unsupported or invalid source, pull or build failure), network or
\* container creation or start failure, container never ready
SetupFailures == {"image", "network_error", "run_error", "start_error",
                  "not_ready"}

\* C25: a defense-job that raised in sandbox setup never writes the defense
\* row: the raising step and every later step of the job leave
\* is_functional, status and functional_error of every defense as they
\* were, and the job is failed, with the cause in its row, from its except
\* step on.
C25_SetupFailureLeavesDefense ==
    /\ [][\A j \in JobIds :
            (IsDefense(j) /\ TaskStep(j) /\ loc'[j].raised \in SetupFailures)
            => /\ defSub' = defSub
               /\ pc'[j] \in {"except", "finally", "return"}
               /\ pc[j] = "except" => jobs'[j].status = "failed"]_vars
    /\ [](\A j \in JobIds :
            ( /\ IsDefense(j) /\ loc[j].raised \in SetupFailures
              /\ pc[j] \in {"finally", "return"} )
            => jobs[j].status = "failed" /\ jobs[j].error = loc[j].raised)

\* C25 witness: the job of a fresh defense whose container never became
\* ready has returned failed, and the defense row is as uploaded.
C25_Witness ==
    \E j \in JobIds :
        /\ IsDefense(j) /\ pc[j] = "return" /\ loc[j].raised = "not_ready"
        /\ jobs[j].status = "failed"
        /\ defSub[jobs[j].sub] = FreshDefense

\* C26: every change of a jobs row follows one of the edges
\* queued -> running, running -> done, running -> failed; a request for
\* another edge leaves the row as it was.
C26_OnlyPermittedEdges ==
    [][\A j \in JobIds :
        (jobs[j].kind # "none" /\ jobs'[j] # jobs[j])
        => <<jobs[j].status, jobs'[j].status>> \in
              {<<"queued", "running">>, <<"running", "done">>,
               <<"running", "failed">>}]_vars

\* registered workers of defense d, by queue_state
WorkersOf(d, state) ==
    {w \in active : /\ meta[w].defense_submission_id = d
                    /\ meta[w].queue_state = state}

\* C27: when an attack-job handles a defense it does not skip while the
\* only registered workers of that defense have closed their queues (a
\* worker the dispatcher may have seen OPEN a moment ago), the attack is
\* not pushed to a closed queue and the job does not give up: it falls
\* back to one new queued defense-job for that defense, published to the
\* broker (as far as the jobs table of the model has room), and goes on.
C27_ClosedWorkerFallsBack ==
    [][\A j \in JobIds :
        ( /\ AtDefense(j) /\ ~SkipsDefense(j) /\ TaskStep(j)
          /\ WorkersOf(loc[j].defs[loc[j].i], "OPEN") = {}
          /\ WorkersOf(loc[j].defs[loc[j].i], "CLOSED") # {} )
        => /\ queue' = queue
           /\ pc'[j] = "loop" /\ loc'[j].raised = ""
           /\ FreeJobIds # {} =>
                 \E k \in JobIds :
                    /\ jobs[k].kind = "none" /\ broker'[k] = "ready"
                    /\ jobs'[k] = [kind |-> "defense", status |-> "queued",
                                   error |-> "",
                                   sub |-> loc[j].defs[loc[j].i]]]_vars

\* the worker of job j has attacks waiting in an OPEN queue
PendingOpen(j) ==
    /\ queue[loc[j].wid] # <<>>
    /\ meta[loc[j].wid].queue_state = "OPEN"

RegistryFailures == {"registry", "TypeError"}

\* C29: a task whose registry call raised writes nothing but its failure:
\* the raising step changes no table, the except step sets its job failed
\* with the error, and when the task returns the job is failed, not queued
\* or running, and the exception is still being propagated.
C29_RegistryFailureFailsJob ==
    /\ [][\A j \in JobIds :
            ( /\ TaskStep(j) /\ loc[j].raised = ""
              /\ loc'[j].raised \in RegistryFailures )
            => jobs' = jobs /\ pc'[j] = "except"]_vars
    /\ [](\A j \in JobIds :
            ( /\ loc[j].raised \in RegistryFailures
              /\ pc[j] \in {"finally", "return"} )
            => /\ jobs[j].status = "failed"
               /\ jobs[j].error = loc[j].raised)

\* C29 witness: a defense-job whose register raised and an attack-job
\* whose claim call raised have both returned, failed.
C29_Witness ==
    \E j, k \in JobIds :
        /\ IsDefense(j) /\ pc[j] = "return" /\ loc[j].raised = "registry"
        /\ jobs[j].status = "failed" /\ jobs[j].error = "registry"
        /\ IsAttack(k) /\ pc[k] = "return" /\ loc[k].raised = "TypeError"
        /\ jobs[k].status = "failed"

\* where a name leads when it is followed from the extraction root: the
\* lowest level reached, counted in directories below the root
RECURSIVE LowestLevel(_, _, _)
LowestLevel(comps, level, low) ==
    IF comps = <<>> THEN low
    ELSE LET next == IF Head(comps) = ".." THEN level - 1
                     ELSE IF Head(comps) = "." THEN level ELSE level + 1
         IN LowestLevel(Tail(comps), next, IF next < low THEN next ELSE low)
EscapesRoot(name) == name.abs \/ LowestLevel(name.comps, 0, 0) < 0

\* C30: of an archive with a member whose name is absolute or leads out
\* of the extraction root no member is ever extracted, and the call ends
\* with an error; a member is extracted only of an archive all of whose
\* names stay inside the root, whose member count is within the limit and
\* whose total size is within the limit.
C30_TraversalRejectedBeforeExtraction ==
    /\ (\E i \in 1..Len(reg.zf) : EscapesRoot(reg.zf[i].name))
       => /\ reg.extracted = <<>>
          /\ reg.pc \notin {"extract", "returned"}
          /\ reg.pc = "failed" => reg.error # ""
    /\ reg.extracted # <<>>
       => /\ \A i \in 1..Len(reg.zf) : ~EscapesRoot(reg.zf[i].name)
          /\ Len(reg.zf) <= MaxFileCount
          /\ total_size(reg.zf) <= MaxTotalSize

\* C30 witness: an archive whose first member is harmless and whose
\* second member leads out of the root only after normalisation
\* (a/../..) has been rejected, and nothing was extracted.
C30_Witness ==
    /\ reg.pc = "failed" /\ reg.error = "Malicious path in ZIP"
    /\ reg.extracted = <<>>
    /\ Len(reg.zf) = 2
    /\ reg.zf[1].name = [abs |-> FALSE, comps |-> <<"a">>]
    /\ reg.zf[2].name = [abs |-> FALSE, comps |-> <<"a", "..", "..">>]

C32_RunCreatedOnlyOnce ==
    /\ \A a \in Attacks : Cardinality(RunsOf(1, a)) <= 1
    /\ \A i \in 1..Len(results) :
          results[i].evaluation_run_id
             \in RunsOf(1, results[i].attack_file_id[1])

\* C33: when run_evaluation returns, every sample the producer put on
\* INTERNAL_QUEUE has been taken from it and has a result row: the queue
\* is empty and the call recorded as many results as samples were put.
C33_NoSampleLeftInQueue ==
    reg.consumer = "returned"
    => /\ reg.q = <<>>
       /\ Len(results) - reg.base = reg.puts

\* C34: every call of run_evaluation ends, by returning or by raising,
\* and when it has ended its producer thread ends as well: no consumer is
\* left in the loop or in join, and no producer is left blocked in put.
C34_BothThreadsEnd ==
    /\ (reg.consumer = "get") ~> (reg.consumer \in {"returned", "raised"})
    /\ (reg.consumer \in {"returned", "raised"}) ~> (reg.producer = "exited")

\* C35: a pair whose claim key is installed while no attack-job for the
\* attack is still in its loop has been dispatched: the attack id is in the
\* queue of a worker of the defense, or a defense-job row for the defense
\* was inserted and its envelope published.
C35_ClaimedPairIsDispatched ==
    \A d \in Defenses, a \in Attacks :
        (/\ claims[<<d, a>>] # Null
         /\ \A j \in JobIds :
               (IsAttack(j) /\ jobs[j].sub = a) => pc[j] \in {"idle", "return"})
        => \/ \E w \in WorkerIds :
                /\ meta[w].defense_submission_id = d
                /\ a \in Elems(queue[w])
           \/ \E j \in JobIds :
                /\ IsDefense(j) /\ jobs[j].sub = d
                /\ broker[j] # "none"

\* C36: a defense-job takes an attack from its queue for evaluation
\* (creating the EvaluationRun and then posting the attack's files) only
\* when its defense is validated at that moment: is_functional is true and
\* the status is ready.
C36_LoopOnlyForValidatedDefense ==
    [][\A j \in JobIds :
          (pc[j] = "eval" /\ pc'[j] = "eval_files")
          => ValidatedDefenseSub(jobs[j].sub)]_vars

\* C37: an execution of a job that set it running comes to its end
\* (return or re-raise) with the job done when no exception escaped the
\* body, and failed with the error text otherwise, never running; and a
\* terminal status is written only by the live execution of the job, once,
\* over the status running.
C37_OneTerminalWrite ==
    [][\A j \in JobIds :
          /\ (pc[j] # "return" /\ pc'[j] = "return")
             => /\ loc'[j].raised = "" => jobs'[j].status = "done"
                /\ loc'[j].raised # ""
                   => /\ jobs'[j].status = "failed"
                      /\ jobs'[j].error = loc'[j].raised
          /\ (jobs'[j].status # jobs[j].status
                /\ jobs'[j].status \in {"done", "failed"})
             => /\ jobs[j].status = "running"
                /\ pc[j] \in {"finish", "loop", "except"}
                /\ pc'[j] \in {"finally", "return"}]_vars

\* C37 witness: a defense-job has come to its end done and an attack-job
\* has come to its end failed with the error recorded.
C37_Witness ==
    \E j, k \in JobIds :
        /\ pc[j] = "return" /\ IsDefense(j)
        /\ jobs[j].status = "done" /\ loc[j].raised = ""
        /\ pc[k] = "return" /\ IsAttack(k)
        /\ jobs[k].status = "failed" /\ jobs[k].error = "TypeError"

\* C38: when the finally clause of a defense-job has ended, every step
\* that applies was attempted whichever steps raised: the unregister, for
\* a started container its stop and its remove, for a created network the
\* gateway disconnect and its remove.
C38_TeardownStepsIndependent ==
    reg.pc = "done"
    => /\ "unregister" \in reg.attempted
       /\ reg.container => {"stop", "remove"} \subseteq reg.attempted
       /\ reg.network => {"disconnect", "network_remove"} \subseteq reg.attempted

\* C39: two executions of defense-jobs that are live at the same time have
\* different worker ids, network names and container names, and the
\* teardown of one execution leaves the registry record, the queue, the
\* container and the network of every other live execution as they were.
C39_LiveExecutionsShareNothing ==
    /\ [](\A e, o \in LiveExecs :
             e # o => /\ worker_id(e) # worker_id(o)
                      /\ network_name(e) # network_name(o)
                      /\ container_name(e) # container_name(o))
    /\ [][\A e, o \in Execs :
             (/\ e # o
              /\ reg.exec[e].pc = "finally" /\ reg'.exec[e].pc = "returned"
              /\ reg.exec[o].pc \in {"sandbox", "evaluate", "except",
                                     "finally"})
             => /\ meta'[worker_id(o)] = meta[worker_id(o)]
                /\ queue'[worker_id(o)] = queue[worker_id(o)]
                /\ worker_id(o) \in active'
                /\ reg.exec[o].container => container_name(o) \in containers'
                /\ reg.exec[o].network => network_name(o) \in networks']_vars

\* C40: get_open_workers_for_defense(d) appends a worker id to its result
\* only at a metadata read that finds a record of that worker with
\* defense_submission_id = d and queue_state = OPEN, however the steps of
\* register and unregister of any worker fall between its reads; a worker
\* whose record is not yet written or already deleted is never appended.
C40_ReturnedWorkerWasOpenWhenRead ==
    [][(/\ reg.scan.pc = "scan" /\ reg'.scan.pc = "scan"
        /\ Len(reg'.scan.out) = Len(reg.scan.out) + 1)
       => LET w == reg'.scan.out[Len(reg'.scan.out)]
          IN /\ w \in reg.scan.todo
             /\ meta[w].exists
             /\ meta[w].defense_submission_id = reg.scan.d
             /\ meta[w].queue_state = "OPEN"]_vars

\* C40 witness: a call has returned a worker that was unregistered after
\* its metadata was read (its record is gone), and has left out a worker
\* that is in the active set read at the start but whose record was
\* deleted before its metadata was read.
C40_Witness ==
    /\ reg.scan.pc = "done" /\ reg.scan.dirty
    /\ Len(reg.scan.out) = 1
    /\ ~meta[reg.scan.out[1]].exists
    /\ reg.scan.out[1] \notin active
    /\ \E w \in active : ~meta[w].exists

====
